---------------------------- MODULE Spec2Model ----------------------------
(***************************************************************************)
(* A model of the poem generation service: the orchestration of            *)
(* PoemService.generate_poem (remote path with retries, backoff, relevance *)
(* check and focused retry; local template engine as the fallback), the    *)
(* text sanitizer, the template engine, and the HTTP endpoint in front of  *)
(* them.  Texts are TLA+ strings handled character by character, so that   *)
(* trimming, tokenising, substring search and replacement are computed as  *)
(* the Python code computes them.                                          *)
(***************************************************************************)
EXTENDS Integers, Sequences, FiniteSets, TLC

(***************************************************************************)
(* Python str operations                                                   *)
(***************************************************************************)

\* the value None
None == "<None>"

\* the element of a one-element set; Only({F(v) : v \in {e}}) is F(e) with e
\* evaluated once, before F
Only(S) == CHOOSE v \in S : TRUE

\* the least element of a non-empty set of numbers
MinOf(S) == CHOOSE i \in S : \A j \in S : i <= j

\* the elements of a finite set of numbers in increasing order
RECURSIVE SortedSeq(_)
SortedSeq(S) ==
  IF S = {} THEN <<>>
  ELSE Only({<<m>> \o SortedSeq(S \ {m}) : m \in {MinOf(S)}})

UpperLetters == "ABCDEFGHIJKLMNOPQRSTUVWXYZ"
LowerLetters == "abcdefghijklmnopqrstuvwxyz"

\* s[i] as a one-character string
At(s, i) == SubSeq(s, i, i)

\* position of character c in the alphabet string abc, 0 when absent
FirstOrZero(hits) == IF hits = {} THEN 0 ELSE MinOf(hits)

IndexIn(abc, c) == FirstOrZero({i \in 1..Len(abc) : At(abc, i) = c})

IsLetter(c) == IndexIn(UpperLetters, c) > 0 \/ IndexIn(LowerLetters, c) > 0

LowerChar(c) ==
  LET i == IndexIn(UpperLetters, c) IN IF i = 0 THEN c ELSE At(LowerLetters, i)

UpperChar(c) ==
  LET i == IndexIn(LowerLetters, c) IN IF i = 0 THEN c ELSE At(UpperLetters, i)

\* str.lower(), by halves so that the evaluation depth stays logarithmic
RECURSIVE Lower(_)
Lower(s) ==
  IF Len(s) = 0 THEN ""
  ELSE IF Len(s) = 1 THEN LowerChar(s)
  ELSE LET h == Len(s) \div 2
       IN Lower(SubSeq(s, 1, h)) \o Lower(SubSeq(s, h + 1, Len(s)))

\* str.upper()
RECURSIVE Upper(_)
Upper(s) ==
  IF Len(s) = 0 THEN ""
  ELSE IF Len(s) = 1 THEN UpperChar(s)
  ELSE LET h == Len(s) \div 2
       IN Upper(SubSeq(s, 1, h)) \o Upper(SubSeq(s, h + 1, Len(s)))

\* str.capitalize(): first character upper-cased, the rest lower-cased
Capitalize(s) ==
  IF Len(s) = 0 THEN "" ELSE UpperChar(At(s, 1)) \o Lower(SubSeq(s, 2, Len(s)))

\* str.title(): a letter that follows a non-letter is upper-cased, every other
\* letter is lower-cased
RECURSIVE TitleFrom(_, _)
TitleFrom(s, i) ==
  IF i > Len(s) THEN ""
  ELSE LET c == At(s, i)
           first == i = 1 \/ ~IsLetter(At(s, i - 1))
       IN (IF first THEN UpperChar(c) ELSE LowerChar(c)) \o TitleFrom(s, i + 1)

Title(s) == TitleFrom(s, 1)

\* the characters str.strip() and str.split() treat as whitespace
IsSpace(c) == c \in {" ", "\n", "\t", "\r"}

\* the first position from i on that holds no whitespace (Len(s) + 1 if none)
RECURSIVE SkipSpaces(_, _)
SkipSpaces(s, i) ==
  IF i > Len(s) \/ ~IsSpace(At(s, i)) THEN i ELSE SkipSpaces(s, i + 1)

\* the last position up to i that holds no whitespace (0 if none)
RECURSIVE SkipSpacesBack(_, _)
SkipSpacesBack(s, i) ==
  IF i = 0 \/ ~IsSpace(At(s, i)) THEN i ELSE SkipSpacesBack(s, i - 1)

\* str.strip()
Strip(s) == SubSeq(s, SkipSpaces(s, 1), SkipSpacesBack(s, Len(s)))

\* str.rstrip()
RStrip(s) == SubSeq(s, 1, SkipSpacesBack(s, Len(s)))

\* str.startswith(p), str.endswith(p)
StartsWith(s, p) == Len(p) <= Len(s) /\ SubSeq(s, 1, Len(p)) = p
EndsWith(s, p) == Len(p) <= Len(s) /\ SubSeq(s, Len(s) - Len(p) + 1, Len(s)) = p

\* p, which is not empty, occurs in s at position i
OccursAt(s, p, i) == At(s, i) = At(p, 1) /\ SubSeq(s, i, i + Len(p) - 1) = p

\* str.find(p) + 1: the first position where p occurs in s, 0 when it does not
Find(s, p) ==
  IF p = "" THEN 1
  ELSE FirstOrZero({i \in 1..(Len(s) - Len(p) + 1) : OccursAt(s, p, i)})

\* p in s
Contains(s, p) == p = "" \/ \E i \in 1..(Len(s) - Len(p) + 1) : OccursAt(s, p, i)

\* s with the occurrence of old at position i replaced by new; s when i = 0
ReplaceAt(s, old, new, i) ==
  IF i = 0 THEN s
  ELSE SubSeq(s, 1, i - 1) \o new \o SubSeq(s, i + Len(old), Len(s))

\* s.replace(old, new, 1), old non-empty
ReplaceFirst(s, old, new) == ReplaceAt(s, old, new, Find(s, old))

\* s.replace(old, new), old non-empty: every occurrence, left to right, the
\* replaced text is not searched again
RECURSIVE ReplaceFrom(_, _, _, _)
ReplaceFrom(s, old, new, i) ==
  IF i = 0 THEN s
  ELSE SubSeq(s, 1, i - 1) \o new
         \o Only({ReplaceFrom(rest, old, new, Find(rest, old)) :
                    rest \in {SubSeq(s, i + Len(old), Len(s))}})

Replace(s, old, new) == ReplaceFrom(s, old, new, Find(s, old))

\* the pieces of s between the positions cuts (increasing), empty ones kept
PiecesBetween(s, cuts) ==
  [k \in 1..(Len(cuts) + 1) |->
     SubSeq(s, IF k = 1 THEN 1 ELSE cuts[k - 1] + 1,
               IF k > Len(cuts) THEN Len(s) ELSE cuts[k] - 1)]

\* s.split(sep) for a one-character separator
SplitOn(s, sep) == PiecesBetween(s, SortedSeq({i \in 1..Len(s) : At(s, i) = sep}))

\* the end of the run of non-whitespace characters that starts at position a
RECURSIVE TokenEnd(_, _)
TokenEnd(s, a) ==
  IF a = Len(s) \/ IsSpace(At(s, a + 1)) THEN a ELSE TokenEnd(s, a + 1)

TokensAt(s, starts) == [k \in 1..Len(starts) |-> SubSeq(s, starts[k], TokenEnd(s, starts[k]))]

\* s.split(): the maximal runs of non-whitespace characters
SplitWhitespace(s) ==
  TokensAt(s, SortedSeq({i \in 1..Len(s) :
                           ~IsSpace(At(s, i)) /\ (i = 1 \/ IsSpace(At(s, i - 1)))}))

\* sep.join(parts) from part k on
RECURSIVE JoinFrom(_, _, _)
JoinFrom(parts, sep, k) ==
  IF k > Len(parts) THEN ""
  ELSE IF k = Len(parts) THEN parts[k]
  ELSE parts[k] \o sep \o JoinFrom(parts, sep, k + 1)

\* sep.join(parts)
Join(parts, sep) == JoinFrom(parts, sep, 1)

(***************************************************************************)
(* TextSanitizer: PoemService._clean_poem_text                             *)
(***************************************************************************)

prefixes_to_remove ==
  <<"Here's a poem", "Here is a poem", "Here's your poem", "I'll write", "Let me write", "A poem about", "Title:", "Poem:", "Verse:">>

\* lowered starts with the lower-cased form of one of the prefixes
StartsWithPrefix(lowered) ==
  \E k \in 1..Len(prefixes_to_remove) : StartsWith(lowered, Lower(prefixes_to_remove[k]))

\* line.lower().startswith(prefix.lower()) for one of the prefixes
HasBoilerplatePrefix(line) == StartsWithPrefix(Lower(line))

\* a line wrapped in a pair of double quotes or in a pair of single quotes
IsQuoted(line) ==
  \/ StartsWith(line, "\"") /\ EndsWith(line, "\"")
  \/ StartsWith(line, "'") /\ EndsWith(line, "'")

\* what a stripped line contributes to cleaned_lines: nothing, or one line
CleanStripped(line) ==
  IF line = "" THEN <<"">>
  ELSE IF HasBoilerplatePrefix(line) THEN <<>>
  ELSE IF IsQuoted(line) THEN <<SubSeq(line, 2, Len(line) - 1)>>
  ELSE <<line>>

CleanLine(raw) == CleanStripped(Strip(raw))

\* cleaned_lines for the lines from line k on
RECURSIVE CleanLinesFrom(_, _)
CleanLinesFrom(lines, k) ==
  IF k > Len(lines) THEN <<>>
  ELSE CleanLine(lines[k]) \o CleanLinesFrom(lines, k + 1)

clean_poem_text(poem_text) ==
  Strip(Join(CleanLinesFrom(SplitOn(poem_text, "\n"), 1), "\n"))

(***************************************************************************)
(* The process-wide random generator (module random).  Its state is a      *)
(* number; a draw steps the state and derives the value from the new       *)
(* state, so that the draws after random.seed(seed) are a function of the  *)
(* seed.                                                                   *)
(***************************************************************************)

\* the number of states of the generator
RngMod == 64

\* the values datetime.now().microsecond takes in the model: 0..MaxMicro-1
MaxMicro == 3

RngNext(x) == (5 * x + 3) % RngMod

\* random.choice(seq) read from generator state x (the state after the step)
RngChoice(seq, x) == seq[((x \div 2) % Len(seq)) + 1]

\* the characters a seed string is made of
Alphabet ==
  " -_{}.,'0123456789abcdefghijklmnopqrstuvwxyzABCDEFGHIJKLMNOPQRSTUVWXYZ"

Digits == "0123456789"

\* str(n) for a natural number
RECURSIVE ToStr(_)
ToStr(n) ==
  IF n < 10 THEN At(Digits, n + 1) ELSE ToStr(n \div 10) \o At(Digits, (n % 10) + 1)

\* int(hashlib.md5(s.encode()).hexdigest()[:8], 16), as a hash of the
\* characters of s into the generator's seeds
RECURSIVE HashFrom(_, _, _)
HashFrom(s, i, acc) ==
  IF i > Len(s) THEN acc
  ELSE Only({HashFrom(s, i + 1, a) :
               a \in {(31 * acc + IndexIn(Alphabet, At(s, i)) + 7) % RngMod}})

md5_seed(seed_string) == HashFrom(seed_string, 1, 0)

(***************************************************************************)
(* TemplateEngine: PoemService._generate_mock_poem and                     *)
(* PoemService._generate_custom_theme_poem                                 *)
(***************************************************************************)

poem_templates ==
  [love |->
     [short |-> <<
          "Love blooms like {flower} in {season},\nTwo souls united beyond all reason.\nIn {adjective} moments we find our way,\nLove's gentle {noun} brightens each day.",
          "Your {body_part} speaks what words cannot say,\nIn love's embrace we'll always stay.\nThrough {weather} storms and sunny skies,\nOur love's the {noun} that never dies.",
          "Like {celestial} dancing in the night,\nOur hearts burn with {adjective} light.\nIn {location} or {location} we roam,\nYour love will always be my home."
        >>,
      medium |-> <<
          "In gardens where the {flower}s grow,\nLove's {adjective} secrets gently flow.\nWith {adjective} words and tender care,\nWe find our {noun} everywhere.\n\nThrough seasons of both joy and {noun},\nOur hearts dance in love's sweet refrain.\nLike {celestial} that shine above,\nWe're bound together by true love.",
          "Beneath the {adjective} {weather} sky,\nWhere {adjective} dreams learn how to fly,\nLove finds its way through {noun} and space,\nA gentle touch, a warm embrace.\n\nThrough {weather} storms and {adjective} days,\nLove guides us through life's winding maze.\nWith every breath and beating heart,\nWe know we'll never drift apart."
        >>,
      long |-> <<
          "When {celestial} paint the evening sky,\nAnd gentle {weather} whispers by,\nLove blooms like {flower}s in the spring,\nA {adjective} and precious thing.\n\nIn {location} where the {flower}s grow,\nAnd crystal {noun}s gently flow,\nTwo hearts discover what is true,\nA love that's {adjective} through and through.\n\nThrough {weather} storms and sunny days,\nLove lights our path in countless ways.\nWith {adjective} touch and whispered word,\nOur hearts fly free like soaring bird.\n\nSo let us dance in love's sweet light,\nAnd hold each other through the night.\nFor in this love we've come to know,\nOur souls have found their place to grow."
        >>],
   nature |->
     [short |-> <<
          "In {location} where {animal}s play,\nNature paints a new display.\nThe {weather} {noun} and {adjective} trees,\nDance together in the breeze.",
          "Beneath the {adjective} {celestial} above,\nNature shows us how to love.\n{Animal}s sing their {adjective} song,\nWhere wild {flower}s have grown strong.",
          "{Weather} whispers through the {noun},\nWhere ancient {tree}s have always been.\nIn every leaf and {flower} bright,\nNature fills the world with light."
        >>,
      medium |-> <<
          "In {location} where {animal}s roam free,\nBeneath the shade of {adjective} tree,\nNature weaves her {adjective} spell,\nStories that the {weather} tell.\n\nThe {noun} flows with {adjective} grace,\nReflecting {celestial}'s gentle face.\nWhile {animal}s dance in morning dew,\nNature's magic shines right through.",
          "Deep in {location} shadows play,\nWhere {adjective} {tree}s hold sway.\n{Celestial} filters through the leaves,\nAs nature's {noun} softly weaves.\n\nThe {weather} {noun} tells stories old,\nOf seasons past and legends told.\nWhile {animal}s dance through morning mist,\nBy nature's {adjective} hand are kissed."
        >>,
      long |-> <<
          "In {location} vast and wild and free,\nWhere {animal}s roam beside the sea,\nNature paints with {adjective} hand,\nAcross this {adjective} wonderland.\n\nThe {weather} sings through {tree} tall,\nWhile {flower}s bloom for one and all.\n{Animal}s call from {noun} deep,\nWhere ancient secrets nature keeps.\n\n{Celestial} dance across the sky,\nAs gentle {weather} breezes sigh.\nIn every stone and grain of sand,\nWe see the work of nature's hand.\n\nFrom {location} high to valleys low,\nNature's {adjective} wonders grow.\nA world of beauty, wild and free,\nNature's perfect symphony."
        >>],
   dreams |->
     [short |-> <<
          "In dreams where {adjective} {animal}s fly,\nBeneath the {weather} {celestial} sky.\nHope and wonder intertwine,\nIn realms both {adjective} and divine.",
          "When {noun} falls and day is done,\nAnd dreams begin their {adjective} run,\nWe journey to a world unknown,\nWhere {adjective} seeds are freely sown.",
          "Close your {body_part} and drift away,\nTo where dreams hold {adjective} sway.\nBeyond the boundaries of {noun},\nWhere {adjective} meets the sublime."
        >>,
      medium |-> <<
          "In castles built of {adjective} light,\nWe wander through the {weather} night.\nWhere {animal}s speak and {flower}s sing,\nAnd {noun} can do most anything.\n\nThrough gardens of the sleeping mind,\nWe leave our {adjective} cares behind.\nAnd in this realm of pure delight,\nOur spirits soar throughout the night.",
          "When {celestial} begin to fade,\nAnd dreamy {noun}s are softly made,\nWe sail on {weather} winds so high,\nAcross the {adjective} dream-filled sky.\n\nIn lands where {adjective} {animal}s play,\nAnd {flower}s bloom in strange array,\nOur dreams unfold like {noun} bright,\nGuiding us through the night."
        >>,
      long |-> <<
          "In realm where {adjective} dreams take flight,\nBeyond the veil of day and night,\nWhere {animal}s dance on {weather} air,\nAnd {flower}s bloom beyond compare.\n\nThrough {location} of the sleeping mind,\nWhere {adjective} treasures we can find,\n{Celestial} guide our spirits free,\nTo lands of {noun} and mystery.\n\nIn dreams we ride on {weather} wings,\nWhere every {noun} softly sings,\nAnd {adjective} castles touch the sky,\nWhere hopes and wishes never die.\n\nSo dream, dear soul, and do not fear,\nFor in your dreams, all truth is clear.\nA world where {noun} and joy run free,\nAnd you can be all you can be."
        >>]]

word_banks ==
  <<[category |-> "flower", words |-> <<"roses", "lilies", "daisies", "tulips", "orchids", "sunflowers", "peonies", "violets">>],
    [category |-> "season", words |-> <<"spring", "summer", "autumn", "winter", "dawn", "twilight">>],
    [category |-> "adjective", words |-> <<"gentle", "radiant", "peaceful", "vibrant", "serene", "luminous", "graceful", "tender", "mystical", "enchanting">>],
    [category |-> "noun", words |-> <<"whisper", "melody", "harmony", "symphony", "journey", "treasure", "wonder", "miracle", "magic", "beauty">>],
    [category |-> "body_part", words |-> <<"eyes", "smile", "heart", "soul", "voice", "touch">>],
    [category |-> "weather", words |-> <<"misty", "golden", "silver", "crystal", "starlit", "moonlit">>],
    [category |-> "celestial", words |-> <<"stars", "moon", "sun", "comets", "galaxies", "constellations">>],
    [category |-> "location", words |-> <<"meadows", "mountains", "forests", "gardens", "valleys", "riversides", "hillsides">>],
    [category |-> "animal", words |-> <<"birds", "deer", "butterflies", "foxes", "rabbits", "eagles", "dolphins">>],
    [category |-> "tree", words |-> <<"oaks", "willows", "pines", "maples", "birches", "cedars">>]>>

custom_templates ==
  [short |-> <<
       "Upon the theme of \"{theme}\" I write,\nWith words that dance in {adjective} light.\nInspiration flows like morning dew,\nCreating verses fresh and new.",
       "In contemplation of \"{theme}\" so bright,\nI weave these words with pure delight.\nLet {noun} take its winding course,\nAnd poetry flow from creative source.",
       "The beauty of \"{theme}\" unfolds,\nIn {adjective} stories that poet tells.\nWith {noun} and rhythm combined,\nI craft these verses for heart and mind."
     >>,
   medium |-> <<
       "Upon the canvas of \"{theme}\",\nI paint with words a {adjective} dream.\nWhere thoughts and feelings intertwine,\nAnd create something quite divine.\n\nLet metaphors dance through each line,\nAs imagery and rhythm combine.\nTo bring your vision into view,\nA poem crafted just for you.",
       "In realm of \"{theme}\" we explore,\nWhere {adjective} wonders lie in store.\nWith {noun} as our faithful guide,\nWe journey to the other side.\n\nThrough {adjective} paths and winding ways,\nWe discover {noun} that never fades.\nA {adjective} tribute to your theme,\nLike poetry from a {adjective} dream."
     >>,
   long |-> <<
       "In contemplation of \"{theme}\" so bright,\nI weave these words with pure delight.\nLet imagination take its course,\nAnd poetry flow from creative source.\n\nThrough metaphor and imagery clear,\nThe essence of your theme draws near.\nWith rhythm, rhyme, and {adjective} emotion,\nI craft this verse like {noun} potion.\n\nIn every line a {noun} lies,\nBeneath the {weather} painted skies.\nMay these words touch your very soul,\nAnd make your spirit feel more whole.\n\nFor in the art of poetry,\nWe find our shared humanity.\nA {adjective} bridge from heart to heart,\nWhere {noun} and beauty never part."
     >>]

love_keywords == <<"love", "heart", "romance", "valentine", "relationship">>
nature_keywords ==
  <<"nature", "forest", "tree", "flower", "mountain", "ocean", "river", "bird", "animal">>
dream_keywords == <<"dream", "sleep", "night", "fantasy", "imagination", "wish">>

\* any(word in text for word in words)
AnyIn(words, text) == \E k \in 1..Len(words) : Contains(text, words[k])

\* the template category with the nature keywords tested before the love
\* keywords
CategoryOfNatureFirst(theme_lower) ==
  IF AnyIn(nature_keywords, theme_lower) THEN "nature"
  ELSE IF AnyIn(love_keywords, theme_lower) THEN "love"
  ELSE IF AnyIn(dream_keywords, theme_lower) THEN "dreams"
  ELSE "generic"

\* the template category matched by theme_lower; "generic" is
\* selected_templates = None
CategoryOf(theme_lower) ==
  IF AnyIn(love_keywords, theme_lower) THEN "love"
  ELSE IF AnyIn(nature_keywords, theme_lower) THEN "nature"
  ELSE IF AnyIn(dream_keywords, theme_lower) THEN "dreams"
  ELSE "generic"

ThemeCategory(theme) == CategoryOf(Lower(theme))

\* the keys of a template dictionary
TemplateLengths == {"short", "medium", "long"}

\* [t.lower() for t in tokens if len(t) > 2], from token k on
RECURSIVE LongTokensFrom(_, _)
LongTokensFrom(tokens, k) ==
  IF k > Len(tokens) THEN <<>>
  ELSE (IF Len(tokens[k]) > 2 THEN <<Lower(tokens[k])>> ELSE <<>>)
         \o LongTokensFrom(tokens, k + 1)

\* [t.lower() for t in theme.split() if len(t) > 2]
theme_tokens(theme) == LongTokensFrom(SplitWhitespace(theme), 1)

\* a fill that replaces the lower-case form of a placeholder only
ReplaceLowerOnly(template, category, replacement) ==
  Replace(template, "{" \o category \o "}", replacement)

\* the four case variants of a placeholder replaced by one word
ReplaceVariants(template, category, replacement) ==
  LET t1 == Replace(template, "{" \o category \o "}", replacement)
      t2 == Replace(t1, "{" \o Capitalize(category) \o "}", replacement)
      t3 == Replace(t2, "{" \o Upper(category) \o "}", replacement)
  IN Replace(t3, "{" \o Title(category) \o "}", replacement)

\* what a fill loop has made of a template: the text, the state of the
\* generator, and the replacements made so far, one entry per call of
\* str.replace that changed the text
Filled(text, x, fills) == [text |-> text, rng |-> x, fills |-> fills]

\* the replacement of the placeholders of category by word, if the text
\* changed
FillOf(before, after, category, word) ==
  IF before = after THEN <<>> ELSE <<[category |-> category, word |-> word]>>

\* the loop over word_banks of _generate_mock_poem from bank k on, with the
\* generator in state x: three candidate words are drawn, one of them is
\* drawn as the replacement
RECURSIVE FillTemplate(_, _, _, _)
FillTemplate(template, k, x, fills) ==
  IF k > Len(word_banks) THEN Filled(template, x, fills)
  ELSE LET words == word_banks[k].words
           x1 == RngNext(x)
           x2 == RngNext(x1)
           x3 == RngNext(x2)
           x4 == RngNext(x3)
           choices == <<RngChoice(words, x1), RngChoice(words, x2), RngChoice(words, x3)>>
           replacement == RngChoice(choices, x4)
       IN Only({FillTemplate(filled, k + 1, y,
                             fills \o FillOf(template, filled, word_banks[k].category, w)) :
                  filled \in {ReplaceVariants(template, word_banks[k].category, replacement)},
                  y \in {x4}, w \in {replacement}})

\* the relevance patch of _generate_mock_poem for the tokens toks of theme
PatchFor(template, theme, toks) ==
  IF Len(toks) > 0 /\ ~AnyIn(toks, Lower(template))
  THEN RStrip(template) \o "\n\n(about " \o theme \o ")"
  ELSE template

\* the relevance patch of _generate_mock_poem
PatchRelevance(template, theme) == PatchFor(template, theme, theme_tokens(theme))

\* while placeholder in template: replace one occurrence by a drawn word
RECURSIVE FillOccurrences(_, _, _, _, _)
FillOccurrences(template, category, words, x, fills) ==
  IF ~Contains(template, "{" \o category \o "}") THEN Filled(template, x, fills)
  ELSE Only({FillOccurrences(ReplaceFirst(template, "{" \o category \o "}", w),
                             category, words, x1,
                             fills \o <<[category |-> category, word |-> w]>>) :
               w \in {RngChoice(words, RngNext(x))},
               x1 \in {RngNext(x)}})

\* the loop over word_banks of _generate_custom_theme_poem from bank k on
RECURSIVE FillCustom(_, _, _, _)
FillCustom(template, k, x, fills) ==
  IF k > Len(word_banks) THEN Filled(template, x, fills)
  ELSE Only({FillCustom(r.text, k + 1, r.rng, r.fills) :
               r \in {FillOccurrences(template, word_banks[k].category,
                                      word_banks[k].words, x, fills)}})

\* the value of a call that returned, and of a call that raised, the state
\* it leaves the generator in, the catalog the template was chosen from and
\* the replacements made in it
Returned(text, x, catalog, fills) ==
  [ok |-> TRUE, text |-> text, rng |-> x, catalog |-> catalog, fills |-> fills]
Raised(error, x, catalog) ==
  [ok |-> FALSE, text |-> error, rng |-> x, catalog |-> catalog, fills |-> <<>>]

\* _generate_custom_theme_poem with the generator in state x; a length that
\* is no key of custom_templates raises KeyError
generate_custom_theme_poem(theme, style, length, x) ==
  IF length \notin TemplateLengths THEN Raised("KeyError: " \o length, x, "generic")
  ELSE LET x1 == RngNext(x)
           template == RngChoice(custom_templates[length], x1)
           themed == Replace(template, "\"{theme}\"", "\"" \o theme \o "\"")
       IN Only({Returned(f.text, f.rng, "generic", f.fills) :
                  f \in {FillCustom(themed, 1, x1, <<>>)}})

\* _generate_mock_poem after random.seed(seed)
generate_mock_poem(theme, style, length, seed) ==
  LET category == ThemeCategory(theme)
  IN IF category # "generic" /\ length \in TemplateLengths
     THEN LET x1 == RngNext(seed)
              template == RngChoice(poem_templates[category][length], x1)
          IN Only({Returned(PatchRelevance(f.text, theme), f.rng, category, f.fills) :
                     f \in {FillTemplate(template, 1, x1, <<>>)}})
     ELSE generate_custom_theme_poem(theme, style, length, seed)

\* the seed of _generate_mock_poem
mock_seed(theme, style, length, microsecond) ==
  md5_seed(Lower(theme) \o "-" \o style \o "-" \o length \o "-" \o ToStr(microsecond))

(***************************************************************************)
(* Inputs of the model                                                     *)
(***************************************************************************)

\* the closed sets of PoemRequest
Styles == {"creative", "haiku", "sonnet", "free_verse", "rhyming"}
Lengths == {"short", "medium", "long"}

\* the values a caller passes: members of the closed sets and one other value
StyleInputs == Styles \cup {"limerick"}
LengthInputs == Lengths \cup {"epic"}

\* themes as received: empty, blank, with one token longer than two
\* characters, padded and without such a token, with several tokens and
\* category keywords
ThemeInputs == {"", "   ", "joy", " Go ", "love and nature"}

\* the themes generate_poem hands to the engines
TrimmedThemes == {Strip(theme) : theme \in ThemeInputs} \ {""}

\* the themes _generate_mock_poem is called with on its own: a placeholder of
\* the word banks, a theme without keyword, themes with keywords of one and
\* of two categories, a theme without a token longer than two characters
LocalThemes == {"{noun}", "xyzzy123", "love and nature", "night {Flower}", "Go", "joy"}

\* the requests served at the same time, each of them once, and what they
\* ask for
RequestIds == {1, 2}
ConcThemes == {"joy", "Joy"}
ConcStyles == {"creative"}
ConcLengths == {"short"}

\* the values of OPENAI_API_KEY: unset, empty, blank, wrong prefix, too short,
\* of length 20, well formed
KeyInputs ==
  {None, "", "   ", "pk-0123456789abcdefghijklmn", "sk-short",
   "sk-0123456789abcdefg", "sk-0123456789abcdefghijklmn"}

\* message.content of a remote response; "" stands for a response without
\* choices or with empty content
ResponseTexts ==
  {"",
   "Hm",
   "Joy!",
   "Here's a poem about joy",
   "Here's a poem about joy\nRoses are red, violets are blue",
   "Roses are red, violets are blue",
   " Go with joy and love the tide \n"}

\* str(e) of the exceptions the remote call raises
ErrorTexts ==
  {"Rate limit reached for requests",
   "Error code: 429 - insufficient_quota",
   "You exceeded your current quota",
   "Request timed out: timeout",
   "Connection error"}

\* the texts of the exceptions the attempt loop raises itself
EmptyResponseError == "Empty response from OpenAI API"
TooShortError == "Generated poem is too short"
ExceptionTexts == ErrorTexts \cup {EmptyResponseError, TooShortError}

\* what a remote call ends with
Outcomes ==
  {[error |-> FALSE, text |-> c] : c \in ResponseTexts}
    \cup {[error |-> TRUE, text |-> e] : e \in ErrorTexts}

\* the calls and sleeps of one request are counted up to this number
MaxCount == 5

\* durations in tenths of a second
\* random.uniform(0, 1)
Jitters == {0, 5, 10}
\* 0.5 + random.random()
RelevanceDelays == {5, 10, 14}
\* random.uniform(0.8, 1.5)
MockDelays == {8, 15}

(***************************************************************************)
(* Program constants                                                       *)
(***************************************************************************)

max_retries == 3
\* 1.0 second, in tenths of a second
base_delay == 10
\* the minimum number of characters of a remote poem
MinPoemLength == 10
\* a credential must be longer than this
MinKeyLength == 20
\* Field(max_length=500) of PoemRequest.theme
MaxThemeLength == 500

\* the lines the texts handed to _clean_poem_text on its own are made of: a
\* blank line, a boilerplate line in another letter case, a padded line, a
\* line in single quotes, a boilerplate line in double quotes, a line that
\* is one quote character, a line that starts and ends with different quotes
CleanLineInputs ==
  {"  ", "HERE'S A POEM about joy", "  Joy is near ", "'Hello'",
   "\"Title: Joy\"", "\"", "'Joy\""}

\* the texts have up to this number of lines
MaxCleanLines == 3

(***************************************************************************)
(* State                                                                   *)
(***************************************************************************)

VARIABLES
  openai_api_key,   \* PoemService.openai_api_key
  client,           \* whether PoemService.client is an AsyncOpenAI object
  api_key_valid,    \* PoemService._api_key_valid
  task              \* the request being served: the locals of its coroutines
                    \* that are read after a suspension (poem_text is kept
                    \* while the focused retry is awaited), where it is
                    \* suspended, and what it has done so far: the theme
                    \* generate_poem was called with, the remote calls
                    \* issued, the sleeps of the attempt loop, the runs of
                    \* the local engine, the path that produced the text,
                    \* what its last remote call ended with, the request
                    \* the endpoint received, the last value of the
                    \* sanitizer
VARIABLES
  rng,              \* the state of the generator of module random, which is
                    \* one per process
  requests,         \* the requests served concurrently on the event loop,
                    \* each one as task is
  local_call        \* a call of _generate_mock_poem: its arguments, where it
                    \* is suspended and what it returned
VARIABLES
  cleaning,         \* a call of _clean_poem_text: its argument and what it
                    \* returned
  probe             \* a call of test_openai_connection: where it is
                    \* suspended, the remote calls it issued and the
                    \* dictionary it returned

service == <<openai_api_key, client, api_key_valid>>
conc_vars == <<rng, requests>>
vars ==
  <<openai_api_key, client, api_key_valid, task, rng, requests, local_call,
    cleaning, probe>>

\* a format validation that accepts a key of 20 characters
validate_api_key_format_min20(api_key) ==
  /\ api_key # None
  /\ api_key # ""
  /\ StartsWith(api_key, "sk-")
  /\ Len(api_key) >= MinKeyLength

\* PoemService._validate_api_key_format
validate_api_key_format(api_key) ==
  /\ api_key # None
  /\ api_key # ""
  /\ StartsWith(api_key, "sk-")
  /\ Len(api_key) > MinKeyLength

\* PoemService.is_openai_available
is_openai_available ==
  client /\ openai_api_key # None /\ openai_api_key # "" /\ api_key_valid

\* the condition of generate_poem for trying the remote path
RemoteConfigured == client /\ openai_api_key # None /\ openai_api_key # ""

NoResult == [kind |-> "none", exc |-> "", text |-> ""]
ReturnedText(text) == [kind |-> "returned", exc |-> "", text |-> text]
RaisedError(exc, text) == [kind |-> "raised", exc |-> exc, text |-> text]
NoResponse == [status |-> 0, generation_method |-> "", poem |-> ""]

\* no remote call of the current attempt has ended
NoOutcome == [error |-> FALSE, text |-> None]

\* no request is being served
IdleTask ==
  [pc |-> "idle", entry |-> None, received |-> None, theme_arg |-> None,
   theme |-> "", style |-> "", length |-> "",
   attempt |-> 0, poem_text |-> "", cleaned |-> None, delay |-> 0, jitter |-> 0, exc |-> None,
   outcome |-> NoOutcome,
   remote_error |-> None, primary_calls |-> 0, focused_calls |-> 0,
   sleeps |-> 0, local_runs |-> 0, microsecond |-> 0, failed |-> <<>>,
   source |-> None,
   result |-> NoResult, response |-> NoResponse]

\* a request of the event loop that has not started: a task, the sampling
\* parameters of its last remote call (the generator state they were read
\* from), whether another request has seeded the generator since it started,
\* and whether it has drawn from the generator after that
IdleRequest ==
  [pc |-> "idle", entry |-> None, received |-> None, theme_arg |-> None,
   theme |-> "", style |-> "", length |-> "",
   attempt |-> 0, poem_text |-> "", cleaned |-> None, delay |-> 0, jitter |-> 0, exc |-> None,
   outcome |-> NoOutcome,
   remote_error |-> None, primary_calls |-> 0, focused_calls |-> 0,
   sleeps |-> 0, local_runs |-> 0, microsecond |-> 0, failed |-> <<>>,
   source |-> None,
   result |-> NoResult, response |-> NoResponse,
   sampling |-> None, reseeded |-> FALSE, drew_reseeded |-> FALSE]

\* no call of _generate_mock_poem is in progress
IdleCall ==
  [pc |-> "idle", theme |-> "", style |-> "", length |-> "",
   microsecond |-> 0, catalog |-> None, fills |-> <<>>, result |-> NoResult,
   template |-> "", bank |-> 0, rng |-> 0]

\* no call of _clean_poem_text
IdleCleaning == [pc |-> "idle", poem_text |-> "", result |-> None]

\* no call of test_openai_connection
IdleProbe ==
  [pc |-> "idle", remote_calls |-> 0, exc |-> None,
   result |-> [available |-> FALSE, error |-> None, details |-> None]]

(***************************************************************************)
(* The HTTP endpoint: main.generate_poem                                   *)
(***************************************************************************)

\* the PoemResponse or the HTTPException the endpoint answers with when
\* poem_service.generate_poem ended with res
EndpointResponse(res) ==
  IF res.kind = "returned"
  THEN [status |-> 200,
        generation_method |-> IF is_openai_available THEN "openai" ELSE "fallback",
        poem |-> res.text]
  ELSE IF res.exc = "ValueError"
  THEN [status |-> 400, generation_method |-> "", poem |-> ""]
  ELSE IF Contains(Lower(res.text), "quota exceeded")
  THEN [status |-> 503, generation_method |-> "", poem |-> ""]
  ELSE IF Contains(Lower(res.text), "rate limit")
  THEN [status |-> 429, generation_method |-> "", poem |-> ""]
  ELSE [status |-> 500, generation_method |-> "", poem |-> ""]

\* generate_poem ends with res, produced by the path src; a call through the
\* endpoint is answered
Deliver(t, res, src) ==
  [t EXCEPT !.pc = "done", !.delay = 0, !.poem_text = "", !.result = res, !.source = src,
            !.response = IF t.entry = "http" THEN EndpointResponse(res)
                         ELSE NoResponse]

(***************************************************************************)
(* RemoteGenerationClient: PoemService._generate_with_openai               *)
(***************************************************************************)

\* one more call or sleep is recorded; the record stops at MaxCount
CountUp(n) == IF n < MaxCount THEN n + 1 ELSE n

\* client.chat.completions.create is awaited for a primary attempt
IssuePrimary(t) ==
  [t EXCEPT !.pc = "remote_wait", !.delay = 0, !.jitter = 0, !.exc = None,
            !.outcome = NoOutcome,
            !.primary_calls = CountUp(@)]

\* client.chat.completions.create is awaited for the focused retry
IssueFocused(t) ==
  [t EXCEPT !.pc = "focused_wait", !.focused_calls = CountUp(@)]

\* asyncio.sleep(d) is awaited before the next attempt
Backoff(t, d) == [t EXCEPT !.pc = "backoff", !.delay = d, !.sleeps = CountUp(@)]

\* generate_poem starts _generate_mock_poem, which first awaits
\* asyncio.sleep(random.uniform(0.8, 1.5))
EnterMock(t) ==
  {[t EXCEPT !.pc = "mock_sleep", !.delay = d, !.jitter = 0, !.poem_text = ""] :
     d \in MockDelays}

\* generate_poem without its try/except: the exception leaves generate_poem
OnRemoteErrorRaises(t, msg) ==
  {Deliver([t EXCEPT !.remote_error = msg], RaisedError("Exception", msg), None)}

\* _generate_with_openai raises Exception(msg): the except clause of
\* generate_poem logs it and falls through to the local engine
OnRemoteError(t, msg) == EnterMock([t EXCEPT !.remote_error = msg])

\* _generate_with_openai returns text, and generate_poem returns it
OnRemoteText(t, text, src) == {Deliver(t, ReturnedText(text), src)}

IsRateLimit(error_msg) == Contains(error_msg, "rate limit") \/ Contains(error_msg, "429")
IsQuota(error_msg) == Contains(error_msg, "quota") \/ Contains(error_msg, "insufficient_quota")
IsTimeout(error_msg) == Contains(error_msg, "timeout")

\* 2 ** n
RECURSIVE Pow2(_)
Pow2(n) == IF n = 0 THEN 1 ELSE 2 * Pow2(n - 1)

\* an except clause without the branch for timeouts
ErrorBranchNoTimeout(error_msg) ==
  IF IsRateLimit(error_msg) THEN "rate_limit"
  ELSE IF IsQuota(error_msg) THEN "quota"
  ELSE "other"

\* the branch of the except clause taken for an exception whose lower-cased
\* text is error_msg
ErrorBranch(error_msg) ==
  IF IsRateLimit(error_msg) THEN "rate_limit"
  ELSE IF IsQuota(error_msg) THEN "quota"
  ELSE IF IsTimeout(error_msg) THEN "timeout"
  ELSE "other"

\* the branch for each exception of the model, computed once
ErrorBranches == {[msg |-> msg, branch |-> ErrorBranch(Lower(msg))] : msg \in ExceptionTexts}

error_branch(msg) == (CHOOSE e \in ErrorBranches : e.msg = msg).branch

\* an except clause that starts the next attempt at once, without a sleep
HandleBranchNoSleep(t, msg, branch) ==
  IF branch = "quota"
  THEN OnRemoteError(t, "OpenAI quota exceeded - please check billing")
  ELSE IF t.attempt < max_retries - 1
       THEN {IssuePrimary([t EXCEPT !.attempt = @ + 1])}
       ELSE OnRemoteError(t, "OpenAI API failed after 3 attempts: " \o msg)

\* an except clause that raises the rate-limit error at the first failure
HandleBranchRateLimitRaises(t, msg, branch) ==
  IF branch = "rate_limit"
  THEN OnRemoteError(t, "OpenAI rate limit exceeded")
  ELSE IF branch = "quota"
  THEN OnRemoteError(t, "OpenAI quota exceeded - please check billing")
  ELSE IF branch = "timeout"
  THEN IF t.attempt < max_retries - 1
       THEN {Backoff(t, base_delay * (t.attempt + 1))}
       ELSE OnRemoteError(t, "OpenAI API timeout")
  ELSE IF t.attempt < max_retries - 1
       THEN {Backoff(t, base_delay)}
       ELSE OnRemoteError(t, "OpenAI API failed after 3 attempts: " \o msg)

\* an except clause whose rate-limit delay does not grow
HandleBranchConstantDelay(t, msg, branch) ==
  IF branch = "rate_limit"
  THEN IF t.attempt < max_retries - 1
       THEN {[Backoff(t, base_delay + j) EXCEPT !.jitter = j] : j \in Jitters}
       ELSE OnRemoteError(t, "OpenAI rate limit exceeded")
  ELSE IF branch = "quota"
  THEN OnRemoteError(t, "OpenAI quota exceeded - please check billing")
  ELSE IF branch = "timeout"
  THEN IF t.attempt < max_retries - 1
       THEN {Backoff(t, base_delay * (t.attempt + 1))}
       ELSE OnRemoteError(t, "OpenAI API timeout")
  ELSE IF t.attempt < max_retries - 1
       THEN {Backoff(t, base_delay)}
       ELSE OnRemoteError(t, "OpenAI API failed after 3 attempts: " \o msg)

\* an except clause that raises, after the last attempt, the error of the
\* first failure of the request
HandleBranchFirstKind(t, msg, branch) ==
  IF t.attempt < max_retries - 1
  THEN IF branch = "rate_limit"
       THEN {[Backoff(t, base_delay * Pow2(t.attempt) + j) EXCEPT !.jitter = j] :
               j \in Jitters}
       ELSE IF branch = "quota"
       THEN OnRemoteError(t, "OpenAI quota exceeded - please check billing")
       ELSE IF branch = "timeout"
       THEN {Backoff(t, base_delay * (t.attempt + 1))}
       ELSE {Backoff(t, base_delay)}
  ELSE IF t.failed[1] = "rate_limit"
  THEN OnRemoteError(t, "OpenAI rate limit exceeded")
  ELSE IF t.failed[1] = "quota"
  THEN OnRemoteError(t, "OpenAI quota exceeded - please check billing")
  ELSE IF t.failed[1] = "timeout"
  THEN OnRemoteError(t, "OpenAI API timeout")
  ELSE OnRemoteError(t, "OpenAI API failed after 3 attempts: " \o msg)

\* the except clause of the attempt loop for an exception whose str() is msg,
\* handled by branch; the jitter of a rate-limit delay is random.uniform(0, 1)
HandleBranch(t, msg, branch) ==
  IF branch = "rate_limit"
  THEN IF t.attempt < max_retries - 1
       THEN {[Backoff(t, base_delay * Pow2(t.attempt) + j) EXCEPT !.jitter = j] :
               j \in Jitters}
       ELSE OnRemoteError(t, "OpenAI rate limit exceeded")
  ELSE IF branch = "quota"
  THEN OnRemoteError(t, "OpenAI quota exceeded - please check billing")
  ELSE IF branch = "timeout"
  THEN IF t.attempt < max_retries - 1
       THEN {Backoff(t, base_delay * (t.attempt + 1))}
       ELSE OnRemoteError(t, "OpenAI API timeout")
  ELSE IF t.attempt < max_retries - 1
       THEN {Backoff(t, base_delay)}
       ELSE OnRemoteError(t, "OpenAI API failed after 3 attempts: " \o msg)

\* the except clause of the attempt loop for an exception whose str() is msg;
\* failed records the branches the failures of the request were handled by
HandleException(t, msg) ==
  HandleBranch([t EXCEPT !.exc = msg, !.failed = Append(@, error_branch(msg))],
               msg, error_branch(msg))

\* a relevance check that asks for every token
ReferencesAllTokens(toks, theme_lower, poem_lower) ==
  IF Len(toks) > 0 THEN \A k \in 1..Len(toks) : Contains(poem_lower, toks[k])
  ELSE Contains(poem_lower, theme_lower)

\* whether poem_lower holds one of the tokens toks, or theme_lower when there
\* is no token
ReferencesTokens(toks, theme_lower, poem_lower) ==
  IF Len(toks) > 0 THEN AnyIn(toks, poem_lower) ELSE Contains(poem_lower, theme_lower)

\* the relevance check of the attempt loop
ReferencesTheme(theme, poem_text) ==
  ReferencesTokens(theme_tokens(theme), Lower(theme), Lower(poem_text))

\* what the attempt loop computes from the content of a response, for the
\* contents and the themes of the model, computed once: poem_text, the themes
\* it passes the relevance check for, and its cleaned form
ResponseFacts ==
  {[content |-> content,
    poem_text |-> Strip(content),
    themes |-> {theme \in TrimmedThemes : ReferencesTheme(theme, Strip(content))},
    cleaned |-> clean_poem_text(Strip(content))] : content \in ResponseTexts}

facts_of(content) == CHOOSE e \in ResponseFacts : e.content = content

\* self._clean_poem_text(poem_text)
cleaned_text(poem_text) == (CHOOSE e \in ResponseFacts : e.poem_text = poem_text).cleaned

\* the request has called self._clean_poem_text, which returned text
WithCleaned(t, text) == [t EXCEPT !.cleaned = text]

\* a return of the attempt loop without the "Basic validation"
ValidateAndReturnAnyLength(t, poem_text, src) ==
  OnRemoteText(WithCleaned(t, cleaned_text(poem_text)), cleaned_text(poem_text), src)

\* "Basic validation" and the return of the attempt loop, for the text
\* poem_text produced by the path src
ValidateAndReturn(t, poem_text, src) ==
  IF Len(poem_text) < MinPoemLength
  THEN HandleException(t, TooShortError)
  ELSE OnRemoteText(WithCleaned(t, cleaned_text(poem_text)),
                    cleaned_text(poem_text), src)

\* an attempt loop that issues the focused retry after any attempt whose
\* text fails the relevance check
OnPrimaryTextEager(t, f) ==
  IF t.theme \notin f.themes
  THEN {IssueFocused([t EXCEPT !.poem_text = f.poem_text])}
  ELSE ValidateAndReturn(t, f.poem_text, "primary")

\* an attempt loop that sleeps after every response that fails the
\* relevance check, the last one included
OnPrimaryTextAlwaysSleeps(t, f) ==
  IF t.theme \notin f.themes
  THEN {Backoff(t, d) : d \in RelevanceDelays}
  ELSE ValidateAndReturn(t, f.poem_text, "primary")

\* the attempt loop from the relevance check of the response f to the next
\* suspension
OnPrimaryText(t, f) ==
  IF t.theme \notin f.themes
  THEN IF t.attempt < max_retries - 1
       THEN {Backoff(t, d) : d \in RelevanceDelays}
       ELSE {IssueFocused([t EXCEPT !.poem_text = f.poem_text])}
  ELSE ValidateAndReturn(t, f.poem_text, "primary")

\* an attempt loop without the check for an empty response
OnPrimaryOutcomeAcceptsEmpty(t, outcome) ==
  LET t1 == [t EXCEPT !.outcome = outcome]
  IN IF outcome.error THEN HandleException(t1, outcome.text)
     ELSE OnPrimaryText(t1, facts_of(outcome.text))

\* the attempt loop from the return of a primary call to the next suspension
OnPrimaryOutcome(t, outcome) ==
  LET t1 == [t EXCEPT !.outcome = outcome]
  IN IF outcome.error THEN HandleException(t1, outcome.text)
     ELSE IF outcome.text = "" THEN HandleException(t1, EmptyResponseError)
     ELSE OnPrimaryText(t1, facts_of(outcome.text))

\* a loop that starts the same attempt again
OnBackoffEndSameAttempt(t) == {IssuePrimary(t)}

\* asyncio.sleep has ended: "continue" starts the next attempt of
\* range(max_retries); after the last one the loop is left and
\* _generate_with_openai raises
OnBackoffEnd(t) ==
  IF t.attempt + 1 < max_retries
  THEN {IssuePrimary([t EXCEPT !.attempt = @ + 1])}
  ELSE OnRemoteError(t, "All OpenAI API attempts failed")

\* a focused retry whose failure is raised instead of falling through to the
\* text of the last primary attempt
OnFocusedOutcomeRaises(t, outcome) ==
  LET t1 == [t EXCEPT !.outcome = outcome]
  IN IF ~outcome.error /\ outcome.text # ""
     THEN OnRemoteText(WithCleaned(t1, facts_of(outcome.text).cleaned),
                       facts_of(outcome.text).cleaned, "focused")
     ELSE HandleBranch([t1 EXCEPT !.exc = "Focused retry failed"],
                       "Focused retry failed", "other")

\* a focused retry that is issued again when it failed
OnFocusedOutcomeRetrying(t, outcome) ==
  IF ~outcome.error /\ outcome.text # ""
  THEN OnRemoteText(WithCleaned(t, facts_of(outcome.text).cleaned),
                    facts_of(outcome.text).cleaned, "focused")
  ELSE {IssueFocused(t)}

\* a focused retry whose content is returned only if it holds the theme
OnFocusedOutcomeChecksTheme(t, outcome) ==
  LET t1 == [t EXCEPT !.outcome = outcome]
  IN IF ~outcome.error /\ outcome.text # "" /\ t.theme \in facts_of(outcome.text).themes
     THEN OnRemoteText(WithCleaned(t1, facts_of(outcome.text).cleaned),
                       facts_of(outcome.text).cleaned, "focused")
     ELSE ValidateAndReturn(t1, t.poem_text, "stale")

\* from the return of the focused call to the next suspension: its content is
\* returned whatever it holds; when it failed, the last primary text goes
\* through the basic validation
OnFocusedOutcome(t, outcome) ==
  LET t1 == [t EXCEPT !.outcome = outcome]
  IN IF ~outcome.error /\ outcome.text # ""
     THEN OnRemoteText(WithCleaned(t1, facts_of(outcome.text).cleaned),
                       facts_of(outcome.text).cleaned, "focused")
     ELSE ValidateAndReturn(t1, t.poem_text, "stale")

(***************************************************************************)
(* GenerationOrchestrator: PoemService.generate_poem                       *)
(***************************************************************************)

\* generate_poem without its input validation
OnGenerateUnvalidated(t, theme, style, length) ==
  LET t1 == [t EXCEPT !.theme = Strip(theme), !.style = style, !.length = length]
  IN IF RemoteConfigured THEN {IssuePrimary(t1)} ELSE EnterMock(t1)

\* generate_poem(theme, style, length) up to its first suspension
OnGenerate(t, theme, style, length) ==
  IF theme = "" \/ Strip(theme) = ""
  THEN {Deliver(t, RaisedError("ValueError", "Theme cannot be empty"), None)}
  ELSE LET t1 == [t EXCEPT !.theme = Strip(theme), !.style = style, !.length = length]
       IN IF RemoteConfigured THEN {IssuePrimary(t1)} ELSE EnterMock(t1)

\* _generate_mock_poem from random.seed(seed) on, for the requests of the
\* model: the poems are computed once and looked up afterwards
MockPoems ==
  {[theme |-> theme, style |-> style, length |-> length, microsecond |-> microsecond,
    poem |-> generate_mock_poem(theme, style, length,
                                mock_seed(theme, style, length, microsecond))] :
     theme \in TrimmedThemes \cup LocalThemes \cup ConcThemes,
     style \in StyleInputs, length \in LengthInputs,
     microsecond \in 0..(MaxMicro - 1)}

seeded_mock_poem(theme, style, length, microsecond) ==
  (CHOOSE e \in MockPoems :
     /\ e.theme = theme
     /\ e.style = style
     /\ e.length = length
     /\ e.microsecond = microsecond).poem

\* _generate_mock_poem after its sleep: the generator is seeded and the poem
\* is built and returned
OnMockSleepEnd(t, microsecond) ==
  LET t1 == [t EXCEPT !.local_runs = @ + 1, !.microsecond = microsecond]
      r == seeded_mock_poem(t.theme, t.style, t.length, microsecond)
  IN IF r.ok THEN {Deliver(t1, ReturnedText(r.text), "local")}
     ELSE {Deliver(t1, RaisedError("KeyError", r.text), "local")}

\* the body of a request as the endpoint receives it
PoemRequest(theme, style, length) == [theme |-> theme, style |-> style, length |-> length]

\* a validation that accepts any style
ValidRequestAnyStyle(theme, style, length) ==
  /\ Len(theme) >= 1
  /\ Len(theme) <= MaxThemeLength
  /\ length \in Lengths

\* the validation of PoemRequest by the framework
ValidRequest(theme, style, length) ==
  /\ Len(theme) >= 1
  /\ Len(theme) <= MaxThemeLength
  /\ style \in Styles
  /\ length \in Lengths

\* str() of the HTTPException(status_code=400) the endpoint raises inside its
\* try block for a blank theme
EmptyThemeDetail == "400: Theme cannot be empty. Please provide a theme for your poem."

\* the endpoint up to its first suspension: the HTTPException raised for a
\* blank theme is raised inside the try block, whose "except Exception"
\* clause handles it
OnHttpRequest(t, theme, style, length) ==
  IF ~ValidRequest(theme, style, length)
  THEN {[t EXCEPT !.pc = "done",
                  !.response = [status |-> 422, generation_method |-> "", poem |-> ""]]}
  ELSE IF Strip(theme) = ""
  THEN {[t EXCEPT !.pc = "done",
                  !.response = EndpointResponse(RaisedError("HTTPException",
                                                            EmptyThemeDetail))]}
  ELSE OnGenerate([t EXCEPT !.theme_arg = Strip(theme)], Strip(theme), style, length)

(***************************************************************************)
(* Construction of the service: PoemService.__init__                       *)
(***************************************************************************)

\* the service for the environment's key; AsyncOpenAI(...) may raise, which
\* leaves the service without a client
Constructed(key, constructor_raises) ==
  LET ok == key # None /\ Strip(key) # "" /\ validate_api_key_format(key)
              /\ ~constructor_raises
  IN /\ openai_api_key = key
     /\ client = ok
     /\ api_key_valid = ok

\* no request is served concurrently
NoRequests ==
  /\ rng = 0
  /\ requests = [r \in RequestIds |-> IdleRequest]

Init ==
  /\ \E key \in KeyInputs, constructor_raises \in BOOLEAN :
       Constructed(key, constructor_raises)
  /\ task = IdleTask
  /\ NoRequests
  /\ local_call = IdleCall
  /\ cleaning = IdleCleaning
  /\ probe = IdleProbe

(***************************************************************************)
(* Actions: one per handler, from one suspension point to the next         *)
(***************************************************************************)

\* a request arrives at POST /api/poems/generate
HttpRequest ==
  /\ task.pc = "idle"
  /\ \E theme \in ThemeInputs, style \in StyleInputs, length \in LengthInputs :
       task' \in OnHttpRequest([task EXCEPT !.entry = "http",
                                             !.received = PoemRequest(theme, style, length)],
                               theme, style, length)
  /\ UNCHANGED <<service, conc_vars, local_call, cleaning, probe>>

\* generate_poem is called directly
DirectCall ==
  /\ task.pc = "idle"
  /\ \E theme \in ThemeInputs, style \in StyleInputs, length \in LengthInputs :
       task' \in OnGenerate([task EXCEPT !.entry = "direct", !.theme_arg = theme],
                            theme, style, length)
  /\ UNCHANGED <<service, conc_vars, local_call, cleaning, probe>>

\* a service that gives up the remote path once a remote call has ended
\* with a quota failure
ServiceDisabledAfterQuota(error) ==
  IF error \in {"OpenAI quota exceeded - please check billing", "Quota exceeded"}
  THEN <<openai_api_key, FALSE, FALSE>>
  ELSE service

\* the credential, the client and the validity flag after a remote call of
\* generate_poem or of test_openai_connection that ended with error (None if
\* with none): neither method assigns them
ServiceAfter(error) == service

\* the remote call of a primary attempt returns or raises
PrimaryReturn ==
  /\ task.pc = "remote_wait"
  /\ \E outcome \in Outcomes : task' \in OnPrimaryOutcome(task, outcome)
  /\ openai_api_key' = ServiceAfter(task'.remote_error)[1]
  /\ client' = ServiceAfter(task'.remote_error)[2]
  /\ api_key_valid' = ServiceAfter(task'.remote_error)[3]
  /\ UNCHANGED <<conc_vars, local_call, cleaning, probe>>

\* the sleep before the next attempt ends
BackoffEnd ==
  /\ task.pc = "backoff"
  /\ task' \in OnBackoffEnd(task)
  /\ UNCHANGED <<service, conc_vars, local_call, cleaning, probe>>

\* the remote call of the focused retry returns or raises
FocusedReturn ==
  /\ task.pc = "focused_wait"
  /\ \E outcome \in Outcomes : task' \in OnFocusedOutcome(task, outcome)
  /\ UNCHANGED <<service, conc_vars, local_call, cleaning, probe>>

\* the simulated delay of the local engine ends
MockSleepEnd ==
  /\ task.pc = "mock_sleep"
  /\ \E microsecond \in 0..(MaxMicro - 1) : task' \in OnMockSleepEnd(task, microsecond)
  /\ UNCHANGED <<service, conc_vars, local_call, cleaning, probe>>

\* the request is over; the service waits for the next one
Reset ==
  /\ task.pc = "done"
  /\ task' = IdleTask
  /\ UNCHANGED <<service, conc_vars, local_call, cleaning, probe>>

Next ==
  \/ HttpRequest
  \/ DirectCall
  \/ PrimaryReturn
  \/ BackoffEnd
  \/ FocusedReturn
  \/ MockSleepEnd
  \/ Reset

Spec == Init /\ [][Next]_vars

\* each remote call eventually returns or raises and each sleep eventually
\* ends
FairSpec ==
  /\ Spec
  /\ WF_vars(PrimaryReturn)
  /\ WF_vars(BackoffEnd)
  /\ WF_vars(FocusedReturn)
  /\ WF_vars(MockSleepEnd)

(***************************************************************************)
(* Properties of the orchestration                                         *)
(***************************************************************************)

\* generate_poem has ended for a theme that passed the validation and a style
\* and a length of the closed sets
EndedClosedRequest ==
  /\ task.pc = "done"
  /\ task.theme_arg # None
  /\ Strip(task.theme_arg) # ""
  /\ task.style \in Styles
  /\ task.length \in Lengths

\* the texts the local engine builds for the request of task
LocalTexts ==
  {seeded_mock_poem(task.theme, task.style, task.length, microsecond).text :
     microsecond \in 0..(MaxMicro - 1)}

\* C1: for a theme that is non-empty after trimming and a style and a length
\* of the closed sets generate_poem never raises, and when the remote path
\* raised, what it returns is the text of the local engine for the same
\* trimmed theme, style and length
C1_FallbackNeverRaises ==
  EndedClosedRequest =>
    /\ task.result.kind = "returned"
    /\ task.theme = Strip(task.theme_arg)
    /\ task.remote_error # None =>
         /\ task.source = "local"
         /\ task.local_runs = 1
         /\ task.result.text \in LocalTexts

C1_Witness ==
  /\ EndedClosedRequest
  /\ task.remote_error = "OpenAI quota exceeded - please check billing"
  /\ task.result.kind = "returned"
  /\ task.source = "local"

\* C2: every text generate_poem returns, from a primary attempt, from the
\* focused retry or from the local engine, has at least 10 characters
C2_ReturnedTextLongEnough ==
  task.result.kind = "returned" => Len(task.result.text) >= MinPoemLength

\* C3: generate_poem called with an empty or blank theme raises the
\* validation error, and no remote call, no sleep and no local generation
\* has happened: the call ends without ever being suspended
C3_EmptyThemeRaisesFirst ==
  (task.entry = "direct" /\ Strip(task.theme_arg) = "") =>
    /\ task.pc = "done"
    /\ task.result = RaisedError("ValueError", "Theme cannot be empty")
    /\ task.primary_calls = 0
    /\ task.focused_calls = 0
    /\ task.sleeps = 0
    /\ task.local_runs = 0

C3_Witness ==
  /\ task.entry = "direct"
  /\ task.theme_arg = "   "
  /\ task.result.kind = "raised"
  /\ RemoteConfigured

\* generate_poem is past its validation and has not ended
InProgress == task.pc \in {"remote_wait", "backoff", "focused_wait", "mock_sleep"}

\* C4: a generate_poem call that passed the validation eventually ends with a
\* result, whatever the remote calls answer
C4_EventuallyResult ==
  InProgress ~> (task.pc = "done" /\ task.result.kind # "none")

C4_Witness ==
  /\ task.pc = "done"
  /\ task.primary_calls = max_retries
  /\ task.focused_calls = 1
  /\ task.result.kind = "returned"

\* C5: when a remote attempt failed with an error text that holds a quota
\* marker, no backoff sleep follows (and so no further remote call)
C5_QuotaNeverRetried ==
  (task.exc # None /\ IsQuota(Lower(task.exc))) => task.pc # "backoff"

\* C6: one request issues at most 3 primary remote calls and at most 1
\* focused call, at most 4 remote calls in all
C6_RemoteCallBound ==
  /\ task.primary_calls <= max_retries
  /\ task.focused_calls <= 1
  /\ task.focused_calls = 1 => task.primary_calls = max_retries
  /\ task.primary_calls + task.focused_calls <= max_retries + 1

C6_Witness ==
  /\ task.pc = "focused_wait"
  /\ task.primary_calls = max_retries
  /\ task.focused_calls = 1

\* C7: the generation method of a response names the path that produced its
\* text: "fallback" exactly when the text came from the local engine
C7_MethodNamesPath ==
  task.response.status = 200 =>
    (task.response.generation_method = "fallback" <=> task.source = "local")


(***************************************************************************)
(* Several requests on one event loop.  A request runs from one            *)
(* suspension to the next without interruption; all of them draw from the  *)
(* generator of module random.                                             *)
(***************************************************************************)

\* the keys the service is constructed with when requests are concurrent
ConcKeys == {None, "sk-0123456789abcdefghijklmn"}

\* what the remote calls of concurrent requests end with
ConcOutcomes ==
  {[error |-> TRUE, text |-> "You exceeded your current quota"],
   [error |-> TRUE, text |-> "Rate limit reached for requests"],
   [error |-> FALSE, text |-> "Roses are red, violets are blue"],
   [error |-> FALSE, text |-> " Go with joy and love the tide \n"]}

\* the generator state after n draws from state x
RECURSIVE RngSteps(_, _)
RngSteps(x, n) == IF n = 0 THEN x ELSE RngSteps(RngNext(x), n - 1)

\* the draws from module random made by the code that runs up to the
\* suspension t2 is in: temperature, presence_penalty and frequency_penalty
\* of a primary call, the delay of the local engine, the delay after a
\* relevance miss, the jitter of a rate-limit delay
DrawsBefore(t2) ==
  IF t2.pc = "remote_wait" THEN 3
  ELSE IF t2.pc = "mock_sleep" THEN 1
  ELSE IF t2.pc = "backoff" /\ t2.exc = None THEN 1
  ELSE IF t2.pc = "backoff" /\ error_branch(t2.exc) = "rate_limit" THEN 1
  ELSE 0

\* the request t has run up to the suspension of t2 with the generator in
\* state x: the sampling parameters of a primary call are read from the
\* generator
Drawn(t, t2, x) ==
  [t2 EXCEPT !.sampling = IF t2.pc = "remote_wait" THEN RngSteps(x, 3) ELSE @,
             !.drew_reseeded = @ \/ (t.reseeded /\ DrawsBefore(t2) > 0)]

\* the delay the generator in state x gives among delays: the last draw before
\* a sleep is the one its duration is computed from
DrawnDelay(delays, x, draws) == RngChoice(SortedSeq(delays), RngSteps(x, draws))

\* a step of request r on an event loop that a sleeping request holds, as
\* with time.sleep: r does not run while another request sleeps
ConcStepBlocking(r, successors) ==
  /\ \A q \in RequestIds \ {r} : requests[q].pc \notin {"backoff", "mock_sleep"}
  /\ \E t2 \in successors :
       /\ t2.delay = DrawnDelay({u.delay : u \in successors}, rng, DrawsBefore(t2))
       /\ requests' = [requests EXCEPT ![r] = Drawn(requests[r], t2, rng)]
       /\ rng' = RngSteps(rng, DrawsBefore(t2))

\* request r runs up to its next suspension, which is one of successors; they
\* differ in the duration of the sleep only, which the generator decides
ConcStep(r, successors) ==
  \E t2 \in successors :
    /\ t2.delay = DrawnDelay({u.delay : u \in successors}, rng, DrawsBefore(t2))
    /\ requests' = [requests EXCEPT ![r] = Drawn(requests[r], t2, rng)]
    /\ rng' = RngSteps(rng, DrawsBefore(t2))

Suspended(t) == t.pc \in {"remote_wait", "backoff", "focused_wait", "mock_sleep"}

\* a local engine that is suspended once more after random.seed(seed): when
\* it runs on, it draws from the generator as the other requests left it
ConcBuildAfterYield(r, microsecond) ==
  LET t == requests[r]
  IN \E poem \in {generate_mock_poem(t.theme, t.style, t.length, rng)} :
       /\ requests' =
            [q \in RequestIds |->
               IF q = r
               THEN Deliver([t EXCEPT !.local_runs = @ + 1, !.microsecond = microsecond],
                            IF poem.ok THEN ReturnedText(poem.text)
                            ELSE RaisedError("KeyError", poem.text), "local")
               ELSE IF Suspended(requests[q]) THEN [requests[q] EXCEPT !.reseeded = TRUE]
               ELSE requests[q]]
       /\ rng' = poem.rng

\* request r, suspended in the sleep of the local engine, runs to its end:
\* random.seed(seed) sets the generator of the process, the draws of the
\* poem step it, and no other request runs in between
ConcSeedAndBuild(r, microsecond) ==
  LET t == requests[r]
      poem == seeded_mock_poem(t.theme, t.style, t.length, microsecond)
  IN /\ requests' =
          [q \in RequestIds |->
             IF q = r THEN Only(OnMockSleepEnd(t, microsecond))
             ELSE IF Suspended(requests[q]) THEN [requests[q] EXCEPT !.reseeded = TRUE]
             ELSE requests[q]]
     /\ rng' = poem.rng

ConcInit ==
  /\ \E key \in ConcKeys : Constructed(key, FALSE)
  /\ task = IdleTask
  /\ NoRequests
  /\ local_call = IdleCall
  /\ cleaning = IdleCleaning
  /\ probe = IdleProbe

\* a request starts: generate_poem runs up to its first suspension
ConcStart ==
  /\ \E r \in RequestIds :
       /\ requests[r].pc = "idle"
       /\ \E theme \in ConcThemes, style \in ConcStyles, length \in ConcLengths :
            ConcStep(r, OnGenerate([requests[r] EXCEPT !.entry = "direct",
                                                       !.theme_arg = theme],
                                   theme, style, length))
  /\ UNCHANGED <<service, task, local_call, cleaning, probe>>

\* the suspended request r is resumed: its remote call returns or raises, or
\* its sleep ends, and it runs up to its next suspension or to its end
ConcResume(r) ==
  \/ /\ requests[r].pc = "remote_wait"
     /\ \E outcome \in ConcOutcomes : ConcStep(r, OnPrimaryOutcome(requests[r], outcome))
  \/ /\ requests[r].pc = "backoff"
     /\ ConcStep(r, OnBackoffEnd(requests[r]))
  \/ /\ requests[r].pc = "focused_wait"
     /\ \E outcome \in ConcOutcomes : ConcStep(r, OnFocusedOutcome(requests[r], outcome))
  \/ /\ requests[r].pc = "mock_sleep"
     /\ \E microsecond \in 0..(MaxMicro - 1) : ConcSeedAndBuild(r, microsecond)

\* the primary remote call of a request returns or raises
ConcPrimaryReturn ==
  /\ \E r \in RequestIds : requests[r].pc = "remote_wait" /\ ConcResume(r)
  /\ UNCHANGED <<service, task, local_call, cleaning, probe>>

\* the sleep of a request before its next attempt ends
ConcBackoffEnd ==
  /\ \E r \in RequestIds : requests[r].pc = "backoff" /\ ConcResume(r)
  /\ UNCHANGED <<service, task, local_call, cleaning, probe>>

\* the focused remote call of a request returns or raises
ConcFocusedReturn ==
  /\ \E r \in RequestIds : requests[r].pc = "focused_wait" /\ ConcResume(r)
  /\ UNCHANGED <<service, task, local_call, cleaning, probe>>

\* the sleep of the local engine of a request ends
ConcMockSleepEnd ==
  /\ \E r \in RequestIds : requests[r].pc = "mock_sleep" /\ ConcResume(r)
  /\ UNCHANGED <<service, task, local_call, cleaning, probe>>

ConcNext ==
  \/ ConcStart
  \/ ConcPrimaryReturn
  \/ ConcBackoffEnd
  \/ ConcFocusedReturn
  \/ ConcMockSleepEnd

SpecConc == ConcInit /\ [][ConcNext]_vars

\* the remote calls and the sleeps of request 2 end; nothing is assumed of
\* request 1, whose remote call may never return
FairConc ==
  /\ SpecConc
  /\ WF_vars(ConcResume(2) /\ UNCHANGED <<service, task, local_call, cleaning, probe>>)

\* C8: the generator a request draws from is its own: no request draws
\* (sampling parameters, delays) from a generator that another request has
\* seeded since the request started
C8_GeneratorOwnedByRequest ==
  \A r \in RequestIds : ~requests[r].drew_reseeded


(***************************************************************************)
(* The local engine on its own: calls of _generate_mock_poem               *)
(***************************************************************************)

LocalInit ==
  /\ Constructed(None, FALSE)
  /\ task = IdleTask
  /\ NoRequests
  /\ local_call = IdleCall
  /\ cleaning = IdleCleaning
  /\ probe = IdleProbe

\* _generate_mock_poem(theme, style, length) is called and suspended in its
\* sleep
LocalCall ==
  /\ local_call.pc = "idle"
  /\ \E theme \in LocalThemes, style \in StyleInputs, length \in LengthInputs :
       local_call' = [local_call EXCEPT !.pc = "mock_sleep", !.theme = theme,
                                        !.style = style, !.length = length]
  /\ UNCHANGED <<service, task, conc_vars, cleaning, probe>>

\* the sleep ends: the generator is seeded, the poem is built and returned
LocalSleepEnd ==
  /\ local_call.pc = "mock_sleep"
  /\ \E microsecond \in 0..(MaxMicro - 1) :
       LET r == seeded_mock_poem(local_call.theme, local_call.style,
                                 local_call.length, microsecond)
       IN local_call' =
            [local_call EXCEPT !.pc = "done",
                               !.microsecond = microsecond,
                               !.catalog = r.catalog,
                               !.fills = r.fills,
                               !.result = IF r.ok THEN ReturnedText(r.text)
                                          ELSE RaisedError("KeyError", r.text)]
  /\ UNCHANGED <<service, task, conc_vars, cleaning, probe>>

\* the call is over
LocalReset ==
  /\ local_call.pc = "done"
  /\ local_call' = IdleCall
  /\ UNCHANGED <<service, task, conc_vars, cleaning, probe>>

LocalNext ==
  \/ LocalCall
  \/ LocalSleepEnd
  \/ LocalReset

SpecLocal == LocalInit /\ [][LocalNext]_vars

\* the local engine has returned a text
LocalReturned == local_call.pc = "done" /\ local_call.result.kind = "returned"

\* C9: for a theme with a whitespace-separated token longer than 2
\* characters, the text the local engine returns holds one such token, in
\* any letter case, or the annotation "(about <theme>)"
C9_LocalTextReferencesTheme ==
  (LocalReturned /\ Len(theme_tokens(local_call.theme)) > 0) =>
    \/ AnyIn(theme_tokens(local_call.theme), Lower(local_call.result.text))
    \/ Contains(local_call.result.text, "(about " \o local_call.theme \o ")")

\* the part of template that precedes its theme placeholder
BeforeTheme(template) == SubSeq(template, 1, Find(template, "\"{theme}\"") - 1)

\* text starts as one of the templates of the generic catalog for length does
FromGenericCatalog(text, length) ==
  \E k \in 1..Len(custom_templates[length]) :
    StartsWith(text, BeforeTheme(custom_templates[length][k]))

\* C10: for a theme that matches no category keyword and a length of the
\* closed set, the local text is built from the generic catalog and holds
\* the theme literally, wrapped in double quotes
C10_GenericTextQuotesTheme ==
  (/\ local_call.pc = "done"
   /\ ThemeCategory(local_call.theme) = "generic"
   /\ local_call.length \in Lengths) =>
    /\ local_call.result.kind = "returned"
    /\ FromGenericCatalog(local_call.result.text, local_call.length)
    /\ Contains(local_call.result.text, "\"" \o local_call.theme \o "\"")

\* C11: within one text of the local engine, every occurrence of one
\* placeholder is replaced by the same word, on the category path and on
\* the generic path
C11_OneWordPerPlaceholder ==
  LocalReturned =>
    \A i, j \in 1..Len(local_call.fills) :
      local_call.fills[i].category = local_call.fills[j].category =>
        local_call.fills[i].word = local_call.fills[j].word

\* the lower-cased theme of the call holds one of the keywords
ThemeHolds(keywords) == AnyIn(keywords, Lower(local_call.theme))

\* C12: the catalog the local engine takes its template from is a function
\* of the lower-cased theme alone: the love catalog if the theme holds a love
\* keyword, else the nature catalog if it holds a nature keyword, else the
\* dreams catalog if it holds a dreams keyword, else the generic catalog
C12_CategoryByPriority ==
  (local_call.pc = "done" /\ local_call.length \in Lengths) =>
    /\ ThemeHolds(love_keywords) => local_call.catalog = "love"
    /\ (~ThemeHolds(love_keywords) /\ ThemeHolds(nature_keywords)) =>
         local_call.catalog = "nature"
    /\ (/\ ~ThemeHolds(love_keywords)
        /\ ~ThemeHolds(nature_keywords)
        /\ ThemeHolds(dream_keywords)) => local_call.catalog = "dreams"
    /\ (/\ ~ThemeHolds(love_keywords)
        /\ ~ThemeHolds(nature_keywords)
        /\ ~ThemeHolds(dream_keywords)) => local_call.catalog = "generic"

\* a theme with keywords of two categories got the category of higher
\* priority
C12_Witness ==
  /\ LocalReturned
  /\ local_call.theme = "love and nature"
  /\ local_call.length \in Lengths
  /\ local_call.catalog = "love"


(***************************************************************************)
(* The sanitizer on its own: calls of _clean_poem_text                     *)
(***************************************************************************)

\* the texts of n lines
RECURSIVE TextsOf(_)
TextsOf(n) ==
  IF n = 1 THEN CleanLineInputs
  ELSE {text \o "\n" \o line : text \in TextsOf(n - 1), line \in CleanLineInputs}

\* the texts _clean_poem_text is called with
CleanInputs == UNION {TextsOf(n) : n \in 1..MaxCleanLines}

CleanInit ==
  /\ Constructed(None, FALSE)
  /\ task = IdleTask
  /\ NoRequests
  /\ local_call = IdleCall
  /\ cleaning = IdleCleaning
  /\ probe = IdleProbe

\* _clean_poem_text(poem_text) is called
CleanCall ==
  /\ cleaning.pc = "idle"
  /\ \E poem_text \in CleanInputs :
       cleaning' = [cleaning EXCEPT !.pc = "called", !.poem_text = poem_text]
  /\ UNCHANGED <<service, task, conc_vars, local_call, probe>>

\* _clean_poem_text returns
CleanReturn ==
  /\ cleaning.pc = "called"
  /\ cleaning' = [cleaning EXCEPT !.pc = "done",
                                  !.result = clean_poem_text(cleaning.poem_text)]
  /\ UNCHANGED <<service, task, conc_vars, local_call, probe>>

\* the call is over
CleanReset ==
  /\ cleaning.pc = "done"
  /\ cleaning' = IdleCleaning
  /\ UNCHANGED <<service, task, conc_vars, local_call, probe>>

CleanNext ==
  \/ CleanCall
  \/ CleanReturn
  \/ CleanReset

SpecClean == CleanInit /\ [][CleanNext]_vars

\* a line without the whitespace around it starts with a boilerplate prefix,
\* in any letter case
Boilerplate(line) ==
  \E k \in 1..Len(prefixes_to_remove) :
    StartsWith(Lower(line), Lower(prefixes_to_remove[k]))

\* a line fully wrapped in one matching pair of straight quotes
Wrapped(line) ==
  /\ Len(line) >= 2
  /\ \/ At(line, 1) = "\"" /\ At(line, Len(line)) = "\""
     \/ At(line, 1) = "'" /\ At(line, Len(line)) = "'"

\* the line without the pair of quotes it is wrapped in
Unwrapped(line) == IF Wrapped(line) THEN SubSeq(line, 2, Len(line) - 1) ELSE line

\* the lines of text, each one without the whitespace around it
TrimmedLines(text) ==
  LET lines == SplitOn(text, "\n") IN [k \in 1..Len(lines) |-> Strip(lines[k])]

NotBoilerplate(line) == ~Boilerplate(line)

\* the lines that remain, blank ones included, each one unwrapped
RemainingLines(text) ==
  LET kept == SelectSeq(TrimmedLines(text), NotBoilerplate)
  IN [k \in 1..Len(kept) |-> Unwrapped(kept[k])]

\* C13: the sanitizer result is the text made of the lines of its argument
\* (without the whitespace around them) that do not start with a boilerplate
\* prefix in any letter case, the blank lines kept, a line fully wrapped in
\* one matching pair of straight quotes without the pair, joined and trimmed
C13_SanitizerAsDescribed ==
  cleaning.pc = "done" =>
    cleaning.result = Strip(Join(RemainingLines(cleaning.poem_text), "\n"))

(***************************************************************************)
(* More properties of the orchestration and of the endpoint                *)
(***************************************************************************)

\* C14: every text generate_poem returns is the value _clean_poem_text
\* returned as the last step of the request, on the remote path and on the
\* local path
C14_ReturnedTextIsSanitized ==
  (task.pc = "done" /\ task.result.kind = "returned") =>
    /\ task.cleaned # None
    /\ task.result.text = task.cleaned

\* the configured credential is non-empty, starts with "sk-" and is longer
\* than 20 characters
CredentialWellFormed ==
  /\ openai_api_key # None
  /\ openai_api_key # ""
  /\ StartsWith(openai_api_key, "sk-")
  /\ Len(openai_api_key) > 20

\* C15: is_openai_available is true only if the client object exists and the
\* credential is non-empty, starts with "sk-" and is longer than 20
\* characters; for a credential that fails one of these conditions it is
\* false and generate_poem issues no remote call
C15_AvailableOnlyWithValidCredential ==
  /\ is_openai_available => (client /\ CredentialWellFormed)
  /\ ~CredentialWellFormed =>
       /\ ~is_openai_available
       /\ task.primary_calls = 0
       /\ task.focused_calls = 0

\* a request was served with a credential of exactly 20 characters: the
\* service was not available and the text came from the local engine
C15_Witness ==
  /\ openai_api_key = "sk-0123456789abcdefg"
  /\ ~is_openai_available
  /\ task.pc = "done"
  /\ task.source = "local"
  /\ task.primary_calls = 0

(***************************************************************************)
(* The connectivity probe, PoemService.test_openai_connection, next to     *)
(* requests for one theme served by the same service                      *)
(***************************************************************************)

\* what the remote call of the probe ends with; the response is not read
ProbeOutcomes ==
  {[error |-> FALSE, text |-> ""]} \cup {[error |-> TRUE, text |-> e] : e \in ErrorTexts}

\* the dictionary test_openai_connection returns
ProbeResult(available, error, details) ==
  [available |-> available, error |-> error, details |-> details]

\* the except clause of test_openai_connection for an exception whose str()
\* is msg and whose lower-cased text is error_msg
ProbeFailure(msg, error_msg) ==
  IF IsQuota(error_msg)
  THEN ProbeResult(FALSE, "Quota exceeded",
                   "OpenAI API quota has been exceeded. Please check billing.")
  ELSE IF IsRateLimit(error_msg)
  THEN ProbeResult(FALSE, "Rate limited",
                   "API rate limit reached. Please try again later.")
  ELSE IF Contains(error_msg, "authentication") \/ Contains(error_msg, "401")
  THEN ProbeResult(FALSE, "Authentication failed",
                   "Invalid API key. Please check your OpenAI API key.")
  ELSE ProbeResult(FALSE, "Connection failed", msg)

\* test_openai_connection up to its suspension, or to its return when the
\* remote is not available
OnProbe(p) ==
  IF ~is_openai_available
  THEN [p EXCEPT !.pc = "done",
                 !.result = ProbeResult(FALSE, "OpenAI client not properly initialized",
                                        "No valid API key or client initialization failed")]
  ELSE [p EXCEPT !.pc = "remote_wait", !.remote_calls = @ + 1]

\* test_openai_connection from the end of its remote call to its return
OnProbeOutcome(p, outcome) ==
  IF outcome.error
  THEN [p EXCEPT !.pc = "done", !.exc = outcome.text,
                 !.result = ProbeFailure(outcome.text, Lower(outcome.text))]
  ELSE [p EXCEPT !.pc = "done",
                 !.result = ProbeResult(TRUE, None, "Connection successful")]

\* test_openai_connection is called
ProbeCall ==
  /\ probe.pc = "idle"
  /\ probe' = OnProbe(probe)
  /\ UNCHANGED <<service, task, conc_vars, local_call, cleaning>>

\* the remote call of the probe returns or raises
ProbeReturn ==
  /\ probe.pc = "remote_wait"
  /\ \E outcome \in ProbeOutcomes : probe' = OnProbeOutcome(probe, outcome)
  /\ openai_api_key' = ServiceAfter(probe'.result.error)[1]
  /\ client' = ServiceAfter(probe'.result.error)[2]
  /\ api_key_valid' = ServiceAfter(probe'.result.error)[3]
  /\ UNCHANGED <<task, conc_vars, local_call, cleaning>>

\* the probe is over
ProbeReset ==
  /\ probe.pc = "done"
  /\ probe' = IdleProbe
  /\ UNCHANGED <<service, task, conc_vars, local_call, cleaning>>

\* generate_poem is called for the theme of the concurrent requests
ProbedGenerate ==
  /\ task.pc = "idle"
  /\ \E theme \in ConcThemes, style \in ConcStyles, length \in ConcLengths :
       task' \in OnGenerate([task EXCEPT !.entry = "direct", !.theme_arg = theme],
                            theme, style, length)
  /\ UNCHANGED <<service, conc_vars, local_call, cleaning, probe>>

ProbeNext ==
  \/ ProbeCall
  \/ ProbeReturn
  \/ ProbeReset
  \/ ProbedGenerate
  \/ PrimaryReturn
  \/ BackoffEnd
  \/ FocusedReturn
  \/ MockSleepEnd
  \/ Reset

SpecProbe == Init /\ [][ProbeNext]_vars

\* the kind of failure the probe reported
ProbeKind ==
  IF probe.result.error = "Quota exceeded" THEN "QuotaExceeded"
  ELSE IF probe.result.error = "Rate limited" THEN "RateLimited"
  ELSE IF probe.result.error = "Authentication failed" THEN "AuthenticationFailed"
  ELSE "TransientFailure"

\* the kind of failure the generation path ended its remote attempts with
GenerationKind ==
  IF task.remote_error = "OpenAI quota exceeded - please check billing" THEN "QuotaExceeded"
  ELSE IF task.remote_error = "OpenAI rate limit exceeded" THEN "RateLimited"
  ELSE IF task.remote_error = "OpenAI API timeout" THEN "Timeout"
  ELSE "TransientFailure"

\* C16: the probe issues one remote call when the remote is available and
\* none otherwise, and when the probe and the remote path of a request have
\* ended on an error of the same text, the probe reports the kind the
\* generation path assigned to it
C16_ProbeClassifiesAsGeneration ==
  /\ probe.pc = "done" =>
       probe.remote_calls = (IF is_openai_available THEN 1 ELSE 0)
  /\ (/\ probe.pc = "done"
      /\ probe.exc # None
      /\ task.remote_error # None
      /\ task.exc = probe.exc) => ProbeKind = GenerationKind

(***************************************************************************)
(* Properties of the endpoint's input validation and of the focused retry  *)
(***************************************************************************)

\* the endpoint has answered a request
Answered == task.pc = "done" /\ task.entry = "http"

\* C17: a request to the endpoint with an empty or whitespace-only theme
\* (style and length of the closed sets) is answered with status 400 and
\* generate_poem is not called for it
C17_BlankThemeIs400 ==
  (/\ Answered
   /\ Strip(task.received.theme) = ""
   /\ task.received.style \in Styles
   /\ task.received.length \in Lengths) =>
    /\ task.response.status = 400
    /\ task.theme_arg = None

\* C18: a request to the endpoint with a style or a length outside the closed
\* sets is answered with status 422 without a call of generate_poem, so that
\* generate_poem is never called through the endpoint with such a value
C18_ClosedSetsAtBoundary ==
  /\ (Answered /\ (task.received.style \notin Styles \/ task.received.length \notin Lengths)) =>
       /\ task.response.status = 422
       /\ task.theme_arg = None
  /\ (task.entry = "http" /\ task.theme_arg # None) =>
       /\ task.style \in Styles
       /\ task.length \in Lengths

\* a request with a style outside the set was rejected
C18_Witness ==
  /\ Answered
  /\ task.received.theme = "joy"
  /\ task.received.style = "limerick"
  /\ task.received.length \in Lengths
  /\ task.response.status = 422
  /\ task.theme_arg = None

(***************************************************************************)
(* Two requests for the same theme, style and length                       *)
(***************************************************************************)

\* request r has returned a text of the local engine
ServedLocally(r) ==
  /\ requests[r].pc = "done"
  /\ requests[r].source = "local"
  /\ requests[r].result.kind = "returned"

\* C19: two requests with the same theme, style and length that were both
\* served by the local engine have returned different texts
C19_SameRequestDifferentTexts ==
  \A r1, r2 \in RequestIds :
    (/\ r1 # r2
     /\ ServedLocally(r1)
     /\ ServedLocally(r2)
     /\ requests[r1].theme = requests[r2].theme
     /\ requests[r1].style = requests[r2].style
     /\ requests[r1].length = requests[r2].length) =>
      requests[r1].result.text # requests[r2].result.text

(***************************************************************************)
(* The focused retry                                                       *)
(***************************************************************************)

\* a step that issues the remote call of the focused retry
FocusedIssued == task'.focused_calls > task.focused_calls

\* C20: the focused retry is issued once per request, and only by the step
\* in which the third primary call returned a text that fails the relevance
\* check: not before the third primary call has ended, not when that call
\* raised, not when its text passed the check
C20_FocusedOnlyAfterLastMiss ==
  [][FocusedIssued =>
       /\ task.pc = "remote_wait"
       /\ task.attempt = 2
       /\ task.primary_calls = 3
       /\ task.focused_calls = 0
       /\ task'.focused_calls = 1
       /\ task'.primary_calls = 3
       /\ task'.pc = "focused_wait"
       /\ task'.exc = None
       /\ ~ReferencesTheme(task.theme, task'.poem_text)]_vars

\* the focused retry is awaited after three primary calls
C20_Witness ==
  /\ task.pc = "focused_wait"
  /\ task.primary_calls = 3
  /\ task.focused_calls = 1
  /\ task.poem_text = "Roses are red, violets are blue"

(***************************************************************************)
(* The order of the remote calls of one request                            *)
(***************************************************************************)

\* a step that issues the remote call of a primary attempt
PrimaryIssued == task'.primary_calls > task.primary_calls

\* a remote call of the request is in flight
InFlight(t) == t.pc \in {"remote_wait", "focused_wait"}

\* C21: within a request at most one remote call is in flight: the first
\* primary call is issued by the start of the request, every later one by
\* the end of the sleep that followed the call before it (as many sleeps
\* have been slept as calls were issued), and the focused call by the return
\* of the last primary call; no call is issued while another one is awaited
C21_AttemptsSequential ==
  [][/\ PrimaryIssued =>
          /\ ~InFlight(task)
          /\ task'.pc = "remote_wait"
          /\ task'.primary_calls = task.primary_calls + 1
          /\ IF task.primary_calls = 0 THEN task.pc = "idle"
             ELSE /\ task.pc = "backoff"
                  /\ task.sleeps = task.primary_calls
                  /\ task'.attempt = task.attempt + 1
     /\ FocusedIssued =>
          /\ task.pc = "remote_wait"
          /\ task'.pc = "focused_wait"
          /\ ~PrimaryIssued]_vars

\* the second primary call is awaited after the first one failed and the
\* sleep that followed it has ended
C21_Witness ==
  /\ task.pc = "remote_wait"
  /\ task.primary_calls = 2
  /\ task.sleeps = 1
  /\ task.attempt = 1

(***************************************************************************)
(* Requests do not wait for each other                                     *)
(***************************************************************************)

\* C22: a request runs to its end whatever the other request does: request
\* 2, once started, ends even when request 1 stays suspended in a sleep or
\* in a remote call for ever
C22_NoWaitingForOtherRequest ==
  (requests[2].pc # "idle") ~> (requests[2].pc = "done")

\* request 2 has run its local engine to the end while request 1 was
\* suspended, and request 1 is still in its backoff sleep
C22_Witness ==
  /\ requests[1].pc = "backoff"
  /\ requests[1].reseeded
  /\ requests[2].pc = "done"
  /\ requests[2].result.kind = "returned"

(***************************************************************************)
(* The except clause of the attempt loop                                   *)
(***************************************************************************)

\* a text holds a rate-limit marker, a quota marker, the timeout marker
HasRateLimitMarker(text) ==
  Contains(Lower(text), "rate limit") \/ Contains(Lower(text), "429")
HasQuotaMarker(text) == Contains(Lower(text), "quota")
HasTimeoutMarker(text) == Contains(Lower(text), "timeout")

\* a step in which the awaited primary call failed, and the except clause
\* ran for the error
PrimaryFailed == task.pc = "remote_wait" /\ task'.exc # None

\* C23: a primary call that fails with a rate-limit marker in its error
\* text is followed, after the first and after the second attempt, by a sleep
\* of base_delay * 2^attempt plus a jitter of 0 to 1 second and no other
\* call, and after the third attempt by the rate-limit error: 3 calls were
\* issued then and no more follow
C23_RateLimitRetriedThenRaised ==
  [][(PrimaryFailed /\ HasRateLimitMarker(task'.exc)) =>
       IF task.attempt < 2
       THEN /\ task'.pc = "backoff"
            /\ task'.jitter \in 0..base_delay
            /\ task'.delay = base_delay * 2^(task.attempt) + task'.jitter
            /\ task'.primary_calls = task.attempt + 1
            /\ task'.remote_error = None
       ELSE /\ task'.pc = "mock_sleep"
            /\ task'.remote_error = "OpenAI rate limit exceeded"
            /\ task'.primary_calls = 3
            /\ task'.sleeps = 2]_vars

\* the third primary call failed with a rate-limit error as the two before
\* it may have: the rate-limit error was raised after 3 calls and 2 sleeps
C23_Witness ==
  /\ task.pc = "mock_sleep"
  /\ task.exc = "Rate limit reached for requests"
  /\ task.remote_error = "OpenAI rate limit exceeded"
  /\ task.primary_calls = 3
  /\ task.sleeps = 2

\* C24: the delay of a rate-limit retry without its jitter is
\* base_delay * 2^attempt, 1 second after the first attempt and 2 seconds
\* after the second, so that it grows strictly with the attempt index
C24_RateLimitDelayDoubles ==
  (task.pc = "backoff" /\ HasRateLimitMarker(task.exc)) =>
    /\ task.delay - task.jitter = base_delay * 2^(task.attempt)
    /\ task.attempt = 0 => task.delay - task.jitter = 10
    /\ task.attempt = 1 => task.delay - task.jitter = 20
    /\ \A earlier \in 0..(task.attempt - 1) :
         base_delay * 2^earlier < task.delay - task.jitter

\* the request sleeps after its second rate-limit failure
C24_Witness ==
  /\ task.pc = "backoff"
  /\ task.exc = "Error code: 429 - insufficient_quota"
  /\ task.attempt = 1
  /\ task.delay = 25
  /\ task.jitter = 5

\* C25: a primary call that fails with "timeout" in its error text, and no
\* rate-limit or quota marker, is followed by a sleep of
\* base_delay * (attempt + 1) when attempts remain and by the timeout error
\* after the last attempt; a call that fails with a text without any marker
\* is followed by a sleep of base_delay, and by the transient-failure error
\* after the last attempt
C25_TimeoutLinearOtherConstant ==
  [][(/\ PrimaryFailed
      /\ ~HasRateLimitMarker(task'.exc)
      /\ ~HasQuotaMarker(task'.exc)) =>
       IF HasTimeoutMarker(task'.exc)
       THEN IF task.attempt < 2
            THEN /\ task'.pc = "backoff"
                 /\ task'.delay = base_delay * (task.attempt + 1)
                 /\ task'.remote_error = None
            ELSE /\ task'.pc = "mock_sleep"
                 /\ task'.remote_error = "OpenAI API timeout"
       ELSE IF task.attempt < 2
            THEN /\ task'.pc = "backoff"
                 /\ task'.delay = base_delay
                 /\ task'.remote_error = None
            ELSE /\ task'.pc = "mock_sleep"
                 /\ task'.remote_error =
                      "OpenAI API failed after 3 attempts: " \o task'.exc]_vars

\* the request sleeps 2 seconds after its second attempt timed out
C25_Witness ==
  /\ task.pc = "backoff"
  /\ task.exc = "Request timed out: timeout"
  /\ task.attempt = 1
  /\ task.delay = 20

(***************************************************************************)
(* What the attempt loop does with a response                              *)
(***************************************************************************)

\* a step in which the awaited primary call returned a response, whose
\* content is task'.outcome.text ("" for a response without choices or with
\* empty content)
PrimaryResponded == task.pc = "remote_wait" /\ ~task'.outcome.error

\* C26: a primary response without choices or with empty content is not
\* returned: it is handled as a failure whose text holds no marker, so that
\* the attempt is used up and followed by a sleep of base_delay when attempts
\* remain, and by the transient-failure error after the last attempt
C26_EmptyResponseIsTransientFailure ==
  [][(PrimaryResponded /\ task'.outcome.text = "") =>
       /\ task'.exc = "Empty response from OpenAI API"
       /\ task'.result.kind = "none"
       /\ task'.primary_calls = task.primary_calls
       /\ task'.focused_calls = task.focused_calls
       /\ IF task.attempt < 2
          THEN /\ task'.pc = "backoff"
               /\ task'.delay = base_delay
               /\ task'.attempt = task.attempt
               /\ task'.remote_error = None
          ELSE /\ task'.pc = "mock_sleep"
               /\ task'.remote_error =
                    "OpenAI API failed after 3 attempts: Empty response from OpenAI API"]_vars

\* the third primary call returned an empty response: the request is on its
\* way to the local engine with the transient-failure error
C26_Witness ==
  /\ task.pc = "mock_sleep"
  /\ ~task.outcome.error
  /\ task.outcome.text = ""
  /\ task.primary_calls = 3
  /\ task.remote_error = "OpenAI API failed after 3 attempts: Empty response from OpenAI API"

\* the whitespace-separated tokens of words that are longer than 2 characters
LongTokens(words) == {words[k] : k \in {i \in 1..Len(words) : Len(words[i]) > 2}}

\* one of tokens occurs in response_lower in any letter case, or the whole
\* theme when there is no token
OccursAmong(tokens, theme, response_lower) ==
  IF tokens # {} THEN \E tok \in tokens : Contains(response_lower, Lower(tok))
  ELSE Contains(response_lower, Lower(theme))

\* response mentions theme
Mentions(theme, response) ==
  OccursAmong(LongTokens(SplitWhitespace(theme)), theme, Lower(response))

\* the attempt loop took the response of this step as one that fails the
\* relevance check: it sleeps before the next attempt without an error, or
\* issues the focused retry
TakenAsMiss ==
  \/ task'.pc = "backoff" /\ task'.exc = None
  \/ task'.pc = "focused_wait"

\* C27: a primary response with content passes the relevance check exactly
\* when a whitespace-separated token of the theme longer than 2 characters
\* occurs in it in any letter case, or the whole theme when it has no such
\* token; a response that fails the check in the first or second attempt is
\* not returned: the request sleeps and the next attempt follows
C27_RelevanceByThemeTokens ==
  [][(PrimaryResponded /\ task'.outcome.text # "") =>
       /\ TakenAsMiss <=> ~Mentions(task.theme, task'.outcome.text)
       /\ (TakenAsMiss /\ task.attempt < 2) =>
            /\ task'.pc = "backoff"
            /\ task'.attempt = task.attempt
            /\ task'.result.kind = "none"
            /\ task'.remote_error = None]_vars

\* the first primary response of a request for "love and nature" holds one
\* of the tokens only and was returned
C27_Witness ==
  /\ task.pc = "done"
  /\ task.theme = "love and nature"
  /\ task.source = "primary"
  /\ task.primary_calls = 1
  /\ task.outcome.text = " Go with joy and love the tide \n"

\* a step in which the awaited focused call returned a response
FocusedResponded == task.pc = "focused_wait" /\ ~task'.outcome.error

\* C28: when the focused call returns content, generate_poem returns that
\* content, trimmed and sanitized, whether it holds the theme or not: no
\* remote call follows, no error is raised and the local engine does not run
C28_FocusedContentReturned ==
  [][(FocusedResponded /\ task'.outcome.text # "") =>
       /\ task'.pc = "done"
       /\ task'.result = ReturnedText(clean_poem_text(Strip(task'.outcome.text)))
       /\ task'.source = "focused"
       /\ task'.primary_calls = task.primary_calls
       /\ task'.focused_calls = task.focused_calls
       /\ task'.remote_error = None
       /\ task'.local_runs = 0]_vars

\* the focused call returned a text without the theme, which was returned
C28_Witness ==
  /\ task.pc = "done"
  /\ task.source = "focused"
  /\ task.theme = "joy"
  /\ task.outcome.text = "Roses are red, violets are blue"
  /\ task.result.text = "Roses are red, violets are blue"
  /\ task.focused_calls = 1

\* a step in which the awaited primary call returned content whose trimmed
\* form is shorter than the minimum
ShortPrimaryResponse ==
  /\ PrimaryResponded
  /\ task'.outcome.text # ""
  /\ Len(Strip(task'.outcome.text)) < 10

\* C29 as stated: a primary response shorter than 10 characters is not
\* returned, and it leads to a retry (a sleep and the next attempt) when
\* attempts remain and to an error, and so to the local engine, in the
\* last attempt
C29_ShortResponseRetriedOrRaised ==
  [][ShortPrimaryResponse =>
       /\ task'.result.kind = "none"
       /\ IF task.attempt < 2 THEN task'.pc = "backoff"
          ELSE task'.pc = "mock_sleep" /\ task'.remote_error # None]_vars

\* the focused call ended without content, so that the text of the last
\* primary response goes through the basic validation
FocusedWithoutContent ==
  /\ task.pc = "focused_wait"
  /\ task'.outcome.error \/ task'.outcome.text = ""

\* C29, amended: a primary response shorter than 10 characters is not
\* returned.  When it passes the relevance check it is rejected as too
\* short: a sleep of base_delay and the next attempt follow, or the
\* transient-failure error in the last attempt.  When it fails the relevance
\* check it is handled as a relevance miss: a sleep and the next attempt
\* follow, or the focused retry in the last attempt, and it is rejected as
\* too short, with the transient-failure error, only when the focused call
\* ends without content
C29_ShortResponseNeverReturned ==
  [][/\ ShortPrimaryResponse =>
          /\ task'.result.kind = "none"
          /\ IF Mentions(task.theme, task'.outcome.text)
             THEN /\ task'.exc = "Generated poem is too short"
                  /\ IF task.attempt < 2
                     THEN task'.pc = "backoff" /\ task'.delay = base_delay
                     ELSE /\ task'.pc = "mock_sleep"
                          /\ task'.remote_error =
                               "OpenAI API failed after 3 attempts: Generated poem is too short"
             ELSE /\ task'.exc = None
                  /\ IF task.attempt < 2 THEN task'.pc = "backoff"
                     ELSE /\ task'.pc = "focused_wait"
                          /\ task'.poem_text = Strip(task'.outcome.text)
     /\ (FocusedWithoutContent /\ Len(task.poem_text) < 10) =>
          /\ task'.result.kind = "none"
          /\ task'.pc = "mock_sleep"
          /\ task'.exc = "Generated poem is too short"
          /\ task'.remote_error =
               "OpenAI API failed after 3 attempts: Generated poem is too short"]_vars

\* the focused call failed after a short third response that did not mention
\* the theme: the short text was rejected and the local engine takes over
C29_Witness ==
  /\ task.pc = "mock_sleep"
  /\ task.theme = "joy"
  /\ task.focused_calls = 1
  /\ task.outcome.error
  /\ task.exc = "Generated poem is too short"

(***************************************************************************)
(* The local engine with the fill loop of the generic catalog step by step *)
(***************************************************************************)

\* a loop body that replaces no occurrence: str.replace with count 0
ReplaceNone(template, placeholder, word) == template

\* the body of the while loop of _generate_custom_theme_poem
ReplaceOne(template, placeholder, word) == ReplaceFirst(template, placeholder, word)

\* the placeholder of bank k
PlaceholderOf(k) == "{" \o word_banks[k].category \o "}"

\* the loops of _generate_custom_theme_poem at the test of a loop condition:
\* the text so far, the bank of the for loop and the state of the generator;
\* ended is TRUE once the for loop is exhausted
LoopState(template, k, x, ended) ==
  [template |-> template, bank |-> k, rng |-> x, ended |-> ended]

\* a step of the loops: the state it leads to and the replacement it made
LoopStep(from, to, fills) == [from |-> from, to |-> to, fills |-> fills]

\* one test of the loop conditions in state s: an occurrence of the
\* placeholder of the current bank is replaced by a drawn word, or the next
\* bank is taken, or the for loop is exhausted
LoopBody(s) ==
  IF s.bank > Len(word_banks)
  THEN LoopStep(s, [s EXCEPT !.ended = TRUE], <<>>)
  ELSE IF Contains(s.template, PlaceholderOf(s.bank))
  THEN Only({LoopStep(s, LoopState(filled, s.bank, x1, FALSE),
                      FillOf(s.template, filled, word_banks[s.bank].category, w)) :
               filled \in {ReplaceOne(s.template, PlaceholderOf(s.bank),
                                      RngChoice(word_banks[s.bank].words, RngNext(s.rng)))},
               x1 \in {RngNext(s.rng)},
               w \in {RngChoice(word_banks[s.bank].words, RngNext(s.rng))}})
  ELSE LoopStep(s, [s EXCEPT !.bank = @ + 1], <<>>)

\* the themes of the model that no keyword catalog takes
GenericThemes == {theme \in LocalThemes : ThemeCategory(theme) = "generic"}

\* _generate_custom_theme_poem up to its loops, for the calls of the model,
\* computed once: the template is drawn and the theme is put in
CustomStarts ==
  {[theme |-> theme, style |-> style, length |-> length, microsecond |-> microsecond,
    start |-> Only({LoopState(Replace(RngChoice(custom_templates[length], x1),
                                      "\"{theme}\"", "\"" \o theme \o "\""),
                              1, x1, FALSE) :
                      x1 \in {RngNext(mock_seed(theme, style, length, microsecond))}})] :
     theme \in GenericThemes, style \in StyleInputs, length \in TemplateLengths,
     microsecond \in 0..(MaxMicro - 1)}

custom_start(theme, style, length, microsecond) ==
  (CHOOSE e \in CustomStarts :
     /\ e.theme = theme
     /\ e.style = style
     /\ e.length = length
     /\ e.microsecond = microsecond).start

\* the steps of the loops from the states of frontier on, steps being the
\* ones found before
RECURSIVE LoopStepsFrom(_, _)
LoopStepsFrom(frontier, steps) ==
  IF frontier = {} THEN steps
  ELSE Only({LoopStepsFrom({e.to : e \in found} \ {e.from : e \in steps \cup found},
                           steps \cup found) :
               found \in {{LoopBody(s) : s \in frontier}}})

\* the steps of the loops for the calls of the model, computed once
LoopSteps == LoopStepsFrom({e.start : e \in CustomStarts}, {})

loop_step(template, k, x) ==
  CHOOSE e \in LoopSteps :
    e.from.template = template /\ e.from.bank = k /\ e.from.rng = x /\ ~e.from.ended

\* the sleep of _generate_mock_poem ends: the generator is seeded and the
\* catalog is chosen.  A poem of a keyword catalog is filled by the for loop
\* over the banks, patched and returned; for the generic catalog the
\* template is drawn, the theme is put in and the loops over the banks begin
FillSleepEnd ==
  /\ local_call.pc = "mock_sleep"
  /\ \E microsecond \in 0..(MaxMicro - 1) :
       LET c == local_call
           r == seeded_mock_poem(c.theme, c.style, c.length, microsecond)
       IN local_call' =
            IF r.catalog # "generic" \/ ~r.ok
            THEN [c EXCEPT !.pc = "done",
                           !.microsecond = microsecond,
                           !.catalog = r.catalog,
                           !.fills = r.fills,
                           !.result = IF r.ok THEN ReturnedText(r.text)
                                      ELSE RaisedError("KeyError", r.text)]
            ELSE LET s == custom_start(c.theme, c.style, c.length, microsecond)
                 IN [c EXCEPT !.pc = "filling",
                              !.microsecond = microsecond,
                              !.catalog = "generic",
                              !.rng = s.rng,
                              !.bank = s.bank,
                              !.template = s.template]
  /\ UNCHANGED <<service, task, conc_vars, cleaning, probe>>

\* one test of the loop conditions of _generate_custom_theme_poem; the text
\* is returned when the for loop is exhausted
FillStep ==
  /\ local_call.pc = "filling"
  /\ LET c == local_call
         e == loop_step(c.template, c.bank, c.rng)
     IN local_call' =
          IF e.to.ended
          THEN [c EXCEPT !.pc = "done", !.result = ReturnedText(c.template)]
          ELSE [c EXCEPT !.rng = e.to.rng,
                         !.bank = e.to.bank,
                         !.template = e.to.template,
                         !.fills = @ \o e.fills]
  /\ UNCHANGED <<service, task, conc_vars, cleaning, probe>>

FillNext ==
  \/ LocalCall
  \/ FillSleepEnd
  \/ FillStep
  \/ LocalReset

SpecFill == LocalInit /\ [][FillNext]_vars

\* asyncio.sleep returns and the synchronous code after it runs on
FairFill == SpecFill /\ WF_vars(FillSleepEnd) /\ WF_vars(FillStep)

\* C30: a call of the local engine with a non-empty theme and a length of
\* the closed set, suspended in its sleep, comes to its end and returns a
\* text, through the keyword catalogs and through the loops of the generic
\* catalog, themes with placeholders of the word banks included
C30_LocalGenerationTerminates ==
  (/\ local_call.pc = "mock_sleep"
   /\ local_call.theme # ""
   /\ local_call.length \in Lengths)
    ~> (/\ local_call.pc = "done"
        /\ local_call.result.kind = "returned"
        /\ local_call.result.text # "")

\* the loops of the generic catalog have come to their end for the theme
\* "{noun}", whose placeholder was replaced, and the text is the one of
\* _generate_custom_theme_poem
C30_Witness ==
  /\ local_call.pc = "done"
  /\ local_call.theme = "{noun}"
  /\ local_call.length \in Lengths
  /\ local_call.bank = Len(word_banks) + 1
  /\ Len(local_call.fills) >= 2
  /\ ~Contains(local_call.result.text, "{noun}")
  /\ local_call.result =
       ReturnedText(seeded_mock_poem(local_call.theme, local_call.style,
                                     local_call.length, local_call.microsecond).text)

\* two requests that the local engine served with the same style, length
\* and value of datetime.now().microsecond
SameDraw(r1, r2) ==
  /\ r1 # r2
  /\ ServedLocally(r1)
  /\ ServedLocally(r2)
  /\ requests[r1].style = requests[r2].style
  /\ requests[r1].length = requests[r2].length
  /\ requests[r1].microsecond = requests[r2].microsecond

\* C31 as stated: two local generations with the same lower-cased theme,
\* style, length and timestamp value, that is, with the same seed, return
\* the same text, whatever the other request did in between
C31_SameSeedSameText ==
  \A r1, r2 \in RequestIds :
    (SameDraw(r1, r2) /\ Lower(requests[r1].theme) = Lower(requests[r2].theme)) =>
      requests[r1].result.text = requests[r2].result.text

\* C31, amended: two local generations with the same theme, letter case
\* included, and the same style, length and timestamp value return the same
\* text, whatever the other request did in between: the seeding and the
\* draws of a local generation are one step of the event loop
C31_SameInputsSameText ==
  \A r1, r2 \in RequestIds :
    (SameDraw(r1, r2) /\ requests[r1].theme = requests[r2].theme) =>
      /\ requests[r1].result.text = requests[r2].result.text
      /\ requests[r1].result.text =
           generate_mock_poem(requests[r1].theme, requests[r1].style, requests[r1].length,
                              mock_seed(requests[r1].theme, requests[r1].style,
                                        requests[r1].length, requests[r1].microsecond)).text

\* both requests were served locally from the same inputs, and request 2 was
\* suspended in a remote call or a sleep of the remote path when request 1
\* seeded the generator
C31_Witness ==
  /\ SameDraw(1, 2)
  /\ requests[1].theme = requests[2].theme
  /\ requests[2].reseeded
  /\ requests[2].primary_calls > 0

\* the error _generate_with_openai raises for a failure of its last attempt
\* whose text is text
ExhaustedError(text) ==
  IF HasRateLimitMarker(text) THEN "OpenAI rate limit exceeded"
  ELSE IF HasQuotaMarker(text) THEN "OpenAI quota exceeded - please check billing"
  ELSE IF HasTimeoutMarker(text) THEN "OpenAI API timeout"
  ELSE "OpenAI API failed after 3 attempts: " \o text

\* C32: when the third primary call fails, the error raised is the one of
\* that failure's kind, whatever the kinds of the failures of the first and
\* second attempt were
C32_LastFailureDecidesError ==
  [][(PrimaryFailed /\ task.attempt = max_retries - 1) =>
       /\ task'.pc = "mock_sleep"
       /\ task'.remote_error = ExhaustedError(task'.exc)]_vars

\* two timeouts and then a rate-limit failure have raised the rate-limit
\* error
C32_Witness ==
  /\ task.failed = <<"timeout", "timeout", "rate_limit">>
  /\ task.remote_error = "OpenAI rate limit exceeded"
  /\ task.pc = "mock_sleep"

\* a step in which the request starts a sleep before a further attempt
BackoffStarted == task'.sleeps > task.sleeps

\* C33: a sleep before a retry starts only after a failed first or second
\* primary attempt and is followed by the next primary call; the step that
\* ends the third primary attempt starts no such sleep: on an error it
\* raises, so that the local engine takes over, on a relevance miss it
\* issues the focused retry; a request sleeps before retries at most twice
C33_SleepOnlyBeforeNextAttempt ==
  [][/\ BackoffStarted =>
          /\ task.pc = "remote_wait"
          /\ task.attempt < max_retries - 1
          /\ task'.pc = "backoff"
     /\ task.pc = "backoff" =>
          /\ task'.pc = "remote_wait"
          /\ task'.attempt = task.attempt + 1
          /\ task'.primary_calls = task.primary_calls + 1
     /\ (task.pc = "remote_wait" /\ task.attempt = max_retries - 1) =>
          /\ task'.sleeps = task.sleeps
          /\ task'.pc \in {"done", "mock_sleep", "focused_wait"}
          /\ PrimaryFailed => task'.pc = "mock_sleep" /\ task'.remote_error # None
          /\ (task'.exc = None /\ task'.pc # "done") => task'.pc = "focused_wait"
     /\ task'.sleeps <= max_retries - 1]_vars

\* the third response failed the relevance check after two sleeps, and the
\* focused retry was issued at once
C33_Witness ==
  /\ task.pc = "focused_wait"
  /\ task.attempt = max_retries - 1
  /\ task.sleeps = 2
  /\ task.failed = <<"timeout">>

\* C34: when the focused call raises or returns no content, no remote call
\* follows: the text of the last primary attempt is sanitized and returned if
\* it has at least 10 characters, and otherwise the transient-failure error
\* is raised, so that the local engine takes over
C34_FocusedFailureFallsBack ==
  [][FocusedWithoutContent =>
       /\ task'.primary_calls = task.primary_calls
       /\ task'.focused_calls = task.focused_calls
       /\ IF Len(task.poem_text) >= 10
          THEN /\ task'.pc = "done"
               /\ task'.result = ReturnedText(clean_poem_text(task.poem_text))
               /\ task'.source = "stale"
               /\ task'.remote_error = None
               /\ task'.local_runs = 0
          ELSE /\ task'.pc = "mock_sleep"
               /\ task'.result.kind = "none"
               /\ task'.remote_error =
                    "OpenAI API failed after 3 attempts: Generated poem is too short"]_vars

\* the focused call raised and the text of the third primary attempt was
\* returned
C34_Witness ==
  /\ task.pc = "done"
  /\ task.source = "stale"
  /\ task.outcome.error
  /\ task.focused_calls = 1
  /\ task.primary_calls = 3
  /\ task.result.kind = "returned"

\* C35: a text returned from a primary attempt that passed the relevance
\* check mentions the theme as it is returned, that is, after the
\* sanitizer has run
C35_ReturnedPrimaryTextMentionsTheme ==
  (/\ task.pc = "done"
   /\ task.source = "primary"
   /\ task.result.kind = "returned") =>
    Mentions(task.theme, task.result.text)

\* a step in which generate_poem is called with a non-blank theme
GenerateCalled ==
  /\ task.pc = "idle"
  /\ task'.pc # "idle"
  /\ task'.theme # ""

\* C36: no step of a request or of a probe, whatever its remote call ended
\* with, changes the credential, the client or the validity flag, and a
\* call of generate_poem on a service constructed with a client starts with
\* a primary remote call, on one without a client with the local engine
C36_AvailabilityFixedAtConstruction ==
  [][/\ openai_api_key' = openai_api_key
     /\ client' = client
     /\ api_key_valid' = api_key_valid
     /\ GenerateCalled =>
          IF RemoteConfigured
          THEN task'.pc = "remote_wait" /\ task'.primary_calls = 1
          ELSE task'.pc = "mock_sleep" /\ task'.primary_calls = 0]_vars

\* a request and a probe have both ended their remote calls with a quota
\* failure, and the service is as it was constructed
C36_Witness ==
  /\ task.remote_error = "OpenAI quota exceeded - please check billing"
  /\ task.pc = "done"
  /\ probe.pc = "done"
  /\ probe.result.error = "Quota exceeded"
  /\ is_openai_available

\* text holds a placeholder of the word banks, in any letter case, or the
\* placeholder of the theme
HoldsPlaceholder(text) ==
  \/ \E k \in 1..Len(word_banks) : Contains(Lower(text), PlaceholderOf(k))
  \/ Contains(Lower(text), "{theme}")

\* C37 as stated: a text the local engine has returned holds no placeholder
\* of the template catalogs, in any letter case
C37_NoPlaceholderInText ==
  LocalReturned => ~HoldsPlaceholder(local_call.result.text)

\* C37, amended: a text the local engine has returned holds no placeholder
\* of the template it was built from: apart from the theme as passed, which
\* the relevance patch and the generic text quote, it holds no placeholder
\* of the word banks in any letter case and no placeholder of the theme
C37_NoPlaceholderOutsideTheme ==
  LocalReturned =>
    ~HoldsPlaceholder(Replace(local_call.result.text, local_call.theme, ""))

\* a text of a keyword catalog whose placeholders were filled and whose
\* relevance patch quotes a theme with placeholder-like text
C37_Witness ==
  /\ LocalReturned
  /\ local_call.theme = "night {Flower}"
  /\ local_call.catalog = "nature"
  /\ Len(local_call.fills) >= 3
  /\ Contains(local_call.result.text, "(about night {Flower})")

\* C38: the sanitizer is idempotent: cleaning a text it has returned gives
\* that text again
C38_SanitizerIdempotent ==
  cleaning.pc = "done" => clean_poem_text(cleaning.result) = cleaning.result

\* C39: a direct call of generate_poem with a non-blank theme and a length
\* outside short, medium and long returns a text, whether the remote path or
\* the local engine serves it
C39_UnknownLengthReturnsText ==
  (/\ task.pc = "done"
   /\ task.entry = "direct"
   /\ Strip(task.theme_arg) # ""
   /\ task.length \notin Lengths) =>
    task.result.kind = "returned"


=============================================================================
